---- MODULE Spec2Model ----
(***************************************************************************)
(* Studio service: membership admission and role authority.                *)
(*                                                                         *)
(* The persistent store is the only shared state.  Request handlers run    *)
(* concurrently: a handler advances by one step per awaited store call,    *)
(* and other handlers may take steps between any two of its awaits.        *)
(* A table is a bag of rows; unique keys and the studio relation are       *)
(* enforced by the create operations, as the database enforces them.       *)
(* A row id is generated per row and the unique (studioId, userId) key     *)
(* admits one row per pair, so a row id is modelled by that pair.          *)
(* `running` holds the handlers in flight; `last` holds the outcome of the *)
(* handler that completed in the step just taken.                          *)
(***************************************************************************)
EXTENDS Bags, FiniteSets, Integers, Sequences, TLC

\* ---------------------------------------------------------------- bounds
MaxCalls == 2        \* handler invocations started in one behaviour
MaxInFlight == 2     \* handlers that may be in flight at the same time

Users == {"u1", "u2", "u3"}
StudioIds == {"s1", "s2"}
Slugs == {"a"}
Messages == {"m1"}
Answers == {"a1"}
MediaIds == {"x1", "x2"}
FaqIds == {"f1", "f2"}
FaqTexts == {"q1"}
\* media a caller may add: an item may come without an order
MediaInputs == {[url |-> "m"], [url |-> "m", order |-> 1]}
\* ratings a caller may send, in halves: 0, 1, 1.5, 5 and 6
RatingInputs == {0, 2, 3, 10, 12}

\* ---------------------------------------------------------------- values
NoValue == "undefined"
Roles == {"OWNER", "MODERATOR", "MEMBER"}
JoinTypes == {"OPEN", "INVITE_ONLY", "WAITLIST"}
NoRow == [studioId |-> "none", userId |-> "none", status |-> "none", role |-> "none"]
NoStudio == [id |-> "none", slug |-> "none", joinType |-> "none"]
NoLocal == [role |-> "none", row |-> NoRow, joinType |-> "none", studioId |-> "none",
            i |-> 0, wrote |-> FALSE, joined |-> FALSE, order |-> 0, count |-> 0]
Idle == [op |-> "idle"]
NoResult == [call |-> Idle, local |-> NoLocal, thrown |-> "none"]
\* question lists a caller may send: an item may come without an order
QuestionLists ==
  { <<[question |-> "qa"]>>,
    <<[question |-> "qb", order |-> 1], [question |-> "qc"]>> }

\* id lists a caller may send to a reorder: one or two different ids
IdLists(ids) ==
  {<<x>> : x \in ids} \cup ({<<x, y>> : x \in ids, y \in ids} \ {<<x, x>> : x \in ids})

VARIABLES
  studios,    \* set of Studio rows [id, slug, joinType]
  usedIds,    \* ids already handed out (a generated id is never reused)
  members,    \* bag of StudioMember rows [studioId, userId, role]
  invites,    \* bag of StudioInvite rows [studioId, userId, status, role]
  requests,   \* bag of StudioJoinRequest rows [studioId, userId, status, message]
  responses,  \* bag of StudioWaitlistResponse rows [studioId, userId, status, answers]
  questions,  \* bag of StudioWaitlistQuestion rows [studioId, question, order]
  media,      \* set of StudioMedia rows [id, studioId, order]
  faqs,       \* set of StudioFAQ rows [id, studioId, order, question]
  ratings,    \* bag of StudioRating rows [studioId, userId, rating]
  ratingCount, \* the ratingCount column of the Studio rows, by studio id
  running,    \* bag of handlers in flight [call, pc, local]
  last,       \* outcome of the handler that completed in the last step, or NoResult
  calls,      \* invocations started so far
  load        \* the traffic of this behaviour: [users, inFlight, studios, calls], the
              \* users who send requests, the number of requests the server handles
              \* at once, the studio ids that requests name, and the number of
              \* requests sent

\* the tables of the media, FAQ and rating services
content == <<media, faqs, ratings, ratingCount>>
store == <<studios, usedIds, members, invites, requests, responses, questions, content>>
vars == <<studios, usedIds, members, invites, requests, responses, questions,
          media, faqs, ratings, ratingCount, running, last, calls, load>>

\* ------------------------------------------------------------ error kinds
\* ServiceError codes made by notFound / badRequest / forbidden / conflict
ServiceError == {"NOT_FOUND", "BAD_REQUEST", "FORBIDDEN", "CONFLICT"}
\* errors raised by the store client itself, which are not ServiceError instances:
\* P2002 unique constraint, P2003 foreign key, P2025 record not found
StoreError == {"P2002", "P2003", "P2025"}

sendError(error) ==
  IF error \in ServiceError
    THEN [status |-> CASE error = "NOT_FOUND" -> 404
                       [] error = "BAD_REQUEST" -> 400
                       [] error = "FORBIDDEN" -> 403
                       [] error = "CONFLICT" -> 409,
          code |-> error]
    ELSE [status |-> 500, code |-> "INTERNAL_ERROR"]

\* ------------------------------------------------------------ store access
Rows(table, s, u) == {r \in BagToSet(table) : r.studioId = s /\ r.userId = u}
RowCount(table, s, u) == BagCardinality([r \in Rows(table, s, u) |-> table[r]])
findUnique(table, s, u) ==
  IF Rows(table, s, u) = {} THEN NoRow ELSE CHOOSE r \in Rows(table, s, u) : TRUE
Insert(table, row) == table (+) SetToBag({row})
Remove(table, row) == table (-) SetToBag({row})
Update(table, row, new) == Insert(Remove(table, row), new)
WithoutStudio(table, s) == LET keep == {r \in BagToSet(table) : r.studioId # s}
                      IN [r \in keep |-> table[r]]
findStudio(s) ==
  IF \E st \in studios : st.id = s THEN CHOOSE st \in studios : st.id = s ELSE NoStudio

\* the error a create raises on a table with a unique (studioId, userId) key
\* and a relation to its studio, or "none" when the row is inserted
\* fault model: the table has no unique (studioId, userId) key
UniqueError_NoKey(table, row) == "none"
UniqueError(table, row) ==
  IF RowCount(table, row.studioId, row.userId) > 0 THEN "P2002" ELSE "none"
\* fault model: a create that checks the studio relation only
CreateError_NoKey(table, row) ==
  IF findStudio(row.studioId) = NoStudio THEN "P2003" ELSE "none"
CreateError(table, row) ==
  IF UniqueError(table, row) # "none" THEN UniqueError(table, row)
  ELSE IF findStudio(row.studioId) = NoStudio THEN "P2003"
  ELSE "none"

getMemberRole(s, u) == findUnique(members, s, u).role

IsManager(role) == role = "OWNER" \/ role = "MODERATOR"

\* ------------------------------------------------------------ handler steps
\* an invocation begins and runs up to its first await
Begin ==
  /\ BagCardinality(running) < load.inFlight
  /\ calls < load.calls
  /\ calls' = calls + 1
  /\ load' = load

\* handler h takes its next step; the other handlers stay where they are
Others(h) == running (-) SetToBag({h})
Step(h, op, pc) ==
  /\ h \in BagToSet(running)
  /\ h.call.op = op
  /\ h.pc = pc
  /\ calls' = calls
  /\ load' = load

\* the handler suspends at its next await
Goto(rest, c, next, loc) ==
  /\ running' = rest (+) SetToBag({[call |-> c, pc |-> next, local |-> loc]})
  /\ last' = NoResult

\* the handler returns (err = "none") or throws err
Finish(rest, c, loc, err) ==
  /\ running' = rest
  /\ last' = [call |-> c, local |-> loc, thrown |-> err]

Written(loc) == [loc EXCEPT !.wrote = TRUE]
WrittenIf(loc, cond) == [loc EXCEPT !.wrote = @ \/ cond]

\* ------------------------------------------------------------ createStudio
\* ids are generated by the store: an invocation begins only while the model
\* still has an id left for it
Creating ==
  BagCardinality([h \in {x \in BagToSet(running) : x.call.op = "createStudio" /\ x.pc = "create"}
                    |-> running[h]])

\* fault model: the slug is not looked up before the create
createStudio_Begin_NoLookup(ownerId, slug, joinType) ==
  LET c == [op |-> "createStudio", ownerId |-> ownerId, slug |-> slug, joinType |-> joinType]
  IN /\ Begin
     /\ Cardinality(StudioIds \ usedIds) > Creating
     /\ Goto(running, c, "create", NoLocal)
     /\ UNCHANGED store

createStudio_Begin(ownerId, slug, joinType) ==
  LET c == [op |-> "createStudio", ownerId |-> ownerId, slug |-> slug, joinType |-> joinType]
  IN /\ Begin
     /\ Cardinality(StudioIds \ usedIds) > Creating
     /\ IF \E st \in studios : st.slug = slug
          THEN Finish(running, c, NoLocal, "CONFLICT")
          ELSE Goto(running, c, "create", NoLocal)
     /\ UNCHANGED store

createStudio_create(h) ==
  /\ Step(h, "createStudio", "create")
  /\ IF \E st \in studios : st.slug = h.call.slug
       THEN /\ Finish(Others(h), h.call, h.local, "P2002")
            /\ UNCHANGED store
       ELSE LET id == CHOOSE s \in StudioIds \ usedIds : TRUE
            IN /\ studios' = studios \cup
                    {[id |-> id, slug |-> h.call.slug,
                      joinType |-> IF h.call.joinType = NoValue THEN "WAITLIST"
                                   ELSE h.call.joinType]}
               /\ usedIds' = usedIds \cup {id}
               /\ Goto(Others(h), h.call, "member",
                       Written([h.local EXCEPT !.studioId = id]))
               /\ UNCHANGED <<members, invites, requests, responses, questions, content>>

createStudio_member(h) ==
  /\ Step(h, "createStudio", "member")
  /\ LET row == [studioId |-> h.local.studioId, userId |-> h.call.ownerId, role |-> "OWNER"]
         err == CreateError(members, row)
     IN /\ members' = IF err = "none" THEN Insert(members, row) ELSE members
        /\ Finish(Others(h), h.call, h.local, err)
  /\ UNCHANGED <<studios, usedIds, invites, requests, responses, questions, content>>

\* ------------------------------------------------------------ updateStudio
updateStudio_Begin(studioId, userId, joinType) ==
  LET c == [op |-> "updateStudio", studioId |-> studioId, userId |-> userId,
            joinType |-> joinType]
      member == findUnique(members, studioId, userId)
      loc == [NoLocal EXCEPT !.role = member.role]
  IN /\ Begin
     /\ IF member = NoRow \/ ~IsManager(member.role)
          THEN Finish(running, c, loc, "FORBIDDEN")
          ELSE Goto(running, c, "update", loc)
     /\ UNCHANGED store

updateStudio_update(h) ==
  /\ Step(h, "updateStudio", "update")
  /\ LET cur == findStudio(h.call.studioId)
     IN IF cur = NoStudio
          THEN /\ Finish(Others(h), h.call, h.local, "P2025")
               /\ UNCHANGED store
          ELSE /\ studios' = (studios \ {cur}) \cup {[cur EXCEPT !.joinType = h.call.joinType]}
               /\ Finish(Others(h), h.call, Written(h.local), "none")
               /\ UNCHANGED <<usedIds, members, invites, requests, responses, questions, content>>

\* ------------------------------------------------------------ deleteStudio
\* fault model: the owner check relaxed to the manager check
deleteStudio_Begin_Manager(studioId, userId) ==
  LET c == [op |-> "deleteStudio", studioId |-> studioId, userId |-> userId]
      member == findUnique(members, studioId, userId)
      loc == [NoLocal EXCEPT !.role = member.role]
  IN /\ Begin
     /\ IF member = NoRow \/ ~IsManager(member.role)
          THEN Finish(running, c, loc, "FORBIDDEN")
          ELSE Goto(running, c, "delete", loc)
     /\ UNCHANGED store

deleteStudio_Begin(studioId, userId) ==
  LET c == [op |-> "deleteStudio", studioId |-> studioId, userId |-> userId]
      member == findUnique(members, studioId, userId)
      loc == [NoLocal EXCEPT !.role = member.role]
  IN /\ Begin
     /\ IF member = NoRow \/ member.role # "OWNER"
          THEN Finish(running, c, loc, "FORBIDDEN")
          ELSE Goto(running, c, "delete", loc)
     /\ UNCHANGED store

\* the delete removes the studio together with the rows that refer to it
\* (cascading relations), or is refused because rows still refer to the studio
\* (restricting relations): the relation's delete rule is not part of the service code
Referenced(s) ==
  \/ \E table \in {members, invites, requests, responses, questions, ratings} :
       \E r \in BagToSet(table) : r.studioId = s
  \/ \E r \in media \cup faqs : r.studioId = s

deleteStudio_delete(h) ==
  /\ Step(h, "deleteStudio", "delete")
  /\ LET cur == findStudio(h.call.studioId)
     IN IF cur = NoStudio
          THEN /\ Finish(Others(h), h.call, h.local, "P2025")
               /\ UNCHANGED store
          ELSE
            \/ /\ Referenced(cur.id)
               /\ Finish(Others(h), h.call, h.local, "P2003")
               /\ UNCHANGED store
            \/ /\ studios' = studios \ {cur}
               /\ members' = WithoutStudio(members, cur.id)
               /\ invites' = WithoutStudio(invites, cur.id)
               /\ requests' = WithoutStudio(requests, cur.id)
               /\ responses' = WithoutStudio(responses, cur.id)
               /\ questions' = WithoutStudio(questions, cur.id)
               /\ media' = {r \in media : r.studioId # cur.id}
               /\ faqs' = {r \in faqs : r.studioId # cur.id}
               /\ ratings' = WithoutStudio(ratings, cur.id)
               /\ Finish(Others(h), h.call, Written(h.local), "none")
               /\ UNCHANGED <<usedIds, ratingCount>>

\* ------------------------------------------------------------ requestToJoin
requestToJoin_Begin(studioId, userId, message) ==
  LET c == [op |-> "requestToJoin", studioId |-> studioId, userId |-> userId,
            message |-> message]
      studio == findStudio(studioId)
  IN /\ Begin
     /\ IF studio = NoStudio
          THEN Finish(running, c, NoLocal, "NOT_FOUND")
          ELSE Goto(running, c, "member", [NoLocal EXCEPT !.joinType = studio.joinType])
     /\ UNCHANGED store

\* fault model: the INVITE_ONLY check is missing
requestToJoin_member_NoInviteOnly(h) ==
  /\ Step(h, "requestToJoin", "member")
  /\ LET existingMember == findUnique(members, h.call.studioId, h.call.userId)
     IN IF existingMember # NoRow THEN Finish(Others(h), h.call, h.local, "CONFLICT")
        ELSE IF h.local.joinType = "OPEN" THEN Goto(Others(h), h.call, "open", h.local)
        ELSE Goto(Others(h), h.call, "request", h.local)
  /\ UNCHANGED store

\* fault model: the OPEN branch is missing, every join goes through a request
requestToJoin_member_NoOpen(h) ==
  /\ Step(h, "requestToJoin", "member")
  /\ LET existingMember == findUnique(members, h.call.studioId, h.call.userId)
     IN IF existingMember # NoRow THEN Finish(Others(h), h.call, h.local, "CONFLICT")
        ELSE IF h.local.joinType = "INVITE_ONLY"
          THEN Finish(Others(h), h.call, h.local, "FORBIDDEN")
        ELSE Goto(Others(h), h.call, "request", h.local)
  /\ UNCHANGED store

requestToJoin_member(h) ==
  /\ Step(h, "requestToJoin", "member")
  /\ LET existingMember == findUnique(members, h.call.studioId, h.call.userId)
     IN IF existingMember # NoRow THEN Finish(Others(h), h.call, h.local, "CONFLICT")
        ELSE IF h.local.joinType = "INVITE_ONLY"
          THEN Finish(Others(h), h.call, h.local, "FORBIDDEN")
        ELSE IF h.local.joinType = "OPEN" THEN Goto(Others(h), h.call, "open", h.local)
        ELSE Goto(Others(h), h.call, "request", h.local)
  /\ UNCHANGED store

\* the call returns { joined: true, member } here and { joined: false, request }
\* from the waitlist branch
requestToJoin_open(h) ==
  /\ Step(h, "requestToJoin", "open")
  /\ LET row == [studioId |-> h.call.studioId, userId |-> h.call.userId, role |-> "MEMBER"]
         err == CreateError(members, row)
         loc == [h.local EXCEPT !.joined = (err = "none")]
     IN /\ members' = IF err = "none" THEN Insert(members, row) ELSE members
        /\ Finish(Others(h), h.call, WrittenIf(loc, err = "none"), err)
  /\ UNCHANGED <<studios, usedIds, invites, requests, responses, questions, content>>

requestToJoin_request(h) ==
  /\ Step(h, "requestToJoin", "request")
  /\ LET existingRequest == findUnique(requests, h.call.studioId, h.call.userId)
     IN IF existingRequest # NoRow /\ existingRequest.status = "PENDING"
          THEN Finish(Others(h), h.call, h.local, "CONFLICT")
        ELSE IF existingRequest # NoRow /\ existingRequest.status = "REJECTED"
          THEN Goto(Others(h), h.call, "update", h.local)
        ELSE Goto(Others(h), h.call, "create", h.local)
  /\ UNCHANGED store

requestToJoin_update(h) ==
  /\ Step(h, "requestToJoin", "update")
  /\ LET cur == findUnique(requests, h.call.studioId, h.call.userId)
     IN IF cur = NoRow
          THEN /\ Finish(Others(h), h.call, h.local, "P2025")
               /\ UNCHANGED requests
          ELSE /\ requests' = Update(requests, cur,
                                [cur EXCEPT !.status = "PENDING", !.message = h.call.message])
               /\ Finish(Others(h), h.call, Written(h.local), "none")
  /\ UNCHANGED <<studios, usedIds, members, invites, responses, questions, content>>

requestToJoin_create(h) ==
  /\ Step(h, "requestToJoin", "create")
  /\ LET row == [studioId |-> h.call.studioId, userId |-> h.call.userId,
                 status |-> "PENDING", message |-> h.call.message]
         err == CreateError(requests, row)
     IN /\ requests' = IF err = "none" THEN Insert(requests, row) ELSE requests
        /\ Finish(Others(h), h.call, WrittenIf(h.local, err = "none"), err)
  /\ UNCHANGED <<studios, usedIds, members, invites, responses, questions, content>>

\* ------------------------------------------------------------ approveRequest
\* fault model: the approver's role is read but not checked
approveRequest_Begin_Unchecked(studioId, requestId, approverId) ==
  LET c == [op |-> "approveRequest", studioId |-> studioId, requestId |-> requestId,
            approverId |-> approverId]
      approverRole == getMemberRole(studioId, approverId)
      loc == [NoLocal EXCEPT !.role = approverRole]
  IN /\ Begin
     /\ Goto(running, c, "find", loc)
     /\ UNCHANGED store

approveRequest_Begin(studioId, requestId, approverId) ==
  LET c == [op |-> "approveRequest", studioId |-> studioId, requestId |-> requestId,
            approverId |-> approverId]
      approverRole == getMemberRole(studioId, approverId)
      loc == [NoLocal EXCEPT !.role = approverRole]
  IN /\ Begin
     /\ IF ~IsManager(approverRole)
          THEN Finish(running, c, loc, "FORBIDDEN")
          ELSE Goto(running, c, "find", loc)
     /\ UNCHANGED store

approveRequest_find(h) ==
  /\ Step(h, "approveRequest", "find")
  /\ LET joinRequest == findUnique(requests, h.call.requestId.studioId, h.call.requestId.userId)
         loc == [h.local EXCEPT !.row = joinRequest]
     IN IF joinRequest = NoRow THEN Finish(Others(h), h.call, loc, "NOT_FOUND")
        ELSE IF joinRequest.studioId # h.call.studioId
          THEN Finish(Others(h), h.call, loc, "BAD_REQUEST")
        ELSE IF joinRequest.status # "PENDING"
          THEN Finish(Others(h), h.call, loc, "CONFLICT")
        ELSE Goto(Others(h), h.call, "transaction", loc)
  /\ UNCHANGED store

\* fault model: the two statements run one after the other outside a transaction
approveRequest_transaction_Split(h) ==
  /\ Step(h, "approveRequest", "transaction")
  /\ LET cur == findUnique(requests, h.call.requestId.studioId, h.call.requestId.userId)
         row == [studioId |-> h.call.studioId, userId |-> h.local.row.userId, role |-> "MEMBER"]
         err == IF cur = NoRow THEN "P2025" ELSE CreateError(members, row)
     IN /\ requests' = IF cur = NoRow THEN requests
                       ELSE Update(requests, cur, [cur EXCEPT !.status = "APPROVED"])
        /\ members' = IF err = "none" THEN Insert(members, row) ELSE members
        /\ Finish(Others(h), h.call, WrittenIf(h.local, cur # NoRow), err)
  /\ UNCHANGED <<studios, usedIds, invites, responses, questions, content>>

\* prisma.$transaction([update, create]): both statements apply or neither does
approveRequest_transaction(h) ==
  /\ Step(h, "approveRequest", "transaction")
  /\ LET cur == findUnique(requests, h.call.requestId.studioId, h.call.requestId.userId)
         row == [studioId |-> h.call.studioId, userId |-> h.local.row.userId, role |-> "MEMBER"]
         err == IF cur = NoRow THEN "P2025" ELSE CreateError(members, row)
     IN /\ IF err = "none"
             THEN /\ requests' = Update(requests, cur, [cur EXCEPT !.status = "APPROVED"])
                  /\ members' = Insert(members, row)
             ELSE UNCHANGED <<requests, members>>
        /\ Finish(Others(h), h.call, WrittenIf(h.local, err = "none"), err)
  /\ UNCHANGED <<studios, usedIds, invites, responses, questions, content>>

\* ------------------------------------------------------------ rejectRequest
rejectRequest_Begin(studioId, requestId, approverId) ==
  LET c == [op |-> "rejectRequest", studioId |-> studioId, requestId |-> requestId,
            approverId |-> approverId]
      approverRole == getMemberRole(studioId, approverId)
      loc == [NoLocal EXCEPT !.role = approverRole]
  IN /\ Begin
     /\ IF ~IsManager(approverRole)
          THEN Finish(running, c, loc, "FORBIDDEN")
          ELSE Goto(running, c, "find", loc)
     /\ UNCHANGED store

\* fault model: the request's studio is not compared with the studio named
rejectRequest_find_AnyStudio(h) ==
  /\ Step(h, "rejectRequest", "find")
  /\ LET joinRequest == findUnique(requests, h.call.requestId.studioId, h.call.requestId.userId)
         loc == [h.local EXCEPT !.row = joinRequest]
     IN IF joinRequest = NoRow THEN Finish(Others(h), h.call, loc, "NOT_FOUND")
        ELSE IF joinRequest.status # "PENDING"
          THEN Finish(Others(h), h.call, loc, "CONFLICT")
        ELSE Goto(Others(h), h.call, "update", loc)
  /\ UNCHANGED store

rejectRequest_find(h) ==
  /\ Step(h, "rejectRequest", "find")
  /\ LET joinRequest == findUnique(requests, h.call.requestId.studioId, h.call.requestId.userId)
         loc == [h.local EXCEPT !.row = joinRequest]
     IN IF joinRequest = NoRow THEN Finish(Others(h), h.call, loc, "NOT_FOUND")
        ELSE IF joinRequest.studioId # h.call.studioId
          THEN Finish(Others(h), h.call, loc, "BAD_REQUEST")
        ELSE IF joinRequest.status # "PENDING"
          THEN Finish(Others(h), h.call, loc, "CONFLICT")
        ELSE Goto(Others(h), h.call, "update", loc)
  /\ UNCHANGED store

rejectRequest_update(h) ==
  /\ Step(h, "rejectRequest", "update")
  /\ LET cur == findUnique(requests, h.call.requestId.studioId, h.call.requestId.userId)
     IN IF cur = NoRow
          THEN /\ Finish(Others(h), h.call, h.local, "P2025")
               /\ UNCHANGED requests
          ELSE /\ requests' = Update(requests, cur, [cur EXCEPT !.status = "REJECTED"])
               /\ Finish(Others(h), h.call, Written(h.local), "none")
  /\ UNCHANGED <<studios, usedIds, members, invites, responses, questions, content>>

\* ------------------------------------------------------------ removeMember
removeMember_Begin(studioId, userId, removerId) ==
  LET c == [op |-> "removeMember", studioId |-> studioId, userId |-> userId,
            removerId |-> removerId]
      removerRole == getMemberRole(studioId, removerId)
      loc == [NoLocal EXCEPT !.role = removerRole]
  IN /\ Begin
     /\ IF ~IsManager(removerRole)
          THEN Finish(running, c, loc, "FORBIDDEN")
          ELSE Goto(running, c, "find", loc)
     /\ UNCHANGED store

\* fault model: the owner may remove themselves
removeMember_find_OwnerGoes(h) ==
  /\ Step(h, "removeMember", "find")
  /\ LET member == findUnique(members, h.call.studioId, h.call.userId)
         loc == [h.local EXCEPT !.row = member]
     IN IF member = NoRow THEN Finish(Others(h), h.call, loc, "NOT_FOUND")
        ELSE IF h.local.role = "MODERATOR" /\ (member.role = "OWNER" \/ member.role = "MODERATOR")
          THEN Finish(Others(h), h.call, loc, "FORBIDDEN")
        ELSE Goto(Others(h), h.call, "delete", loc)
  /\ UNCHANGED store

removeMember_find(h) ==
  /\ Step(h, "removeMember", "find")
  /\ LET member == findUnique(members, h.call.studioId, h.call.userId)
         loc == [h.local EXCEPT !.row = member]
     IN IF member = NoRow THEN Finish(Others(h), h.call, loc, "NOT_FOUND")
        ELSE IF h.local.role = "MODERATOR" /\ (member.role = "OWNER" \/ member.role = "MODERATOR")
          THEN Finish(Others(h), h.call, loc, "FORBIDDEN")
        ELSE IF member.role = "OWNER" /\ h.call.userId = h.call.removerId
          THEN Finish(Others(h), h.call, loc, "BAD_REQUEST")
        ELSE Goto(Others(h), h.call, "delete", loc)
  /\ UNCHANGED store

removeMember_delete(h) ==
  /\ Step(h, "removeMember", "delete")
  /\ LET cur == findUnique(members, h.call.studioId, h.call.userId)
     IN IF cur = NoRow
          THEN /\ Finish(Others(h), h.call, h.local, "P2025")
               /\ UNCHANGED members
          ELSE /\ members' = Remove(members, cur)
               /\ Finish(Others(h), h.call, Written(h.local), "none")
  /\ UNCHANGED <<studios, usedIds, invites, requests, responses, questions, content>>

\* ------------------------------------------------------------ updateMemberRole
\* fault model: the owner check relaxed to the manager check
updateMemberRole_Begin_Manager(studioId, userId, role, updaterId) ==
  LET c == [op |-> "updateMemberRole", studioId |-> studioId, userId |-> userId,
            role |-> role, updaterId |-> updaterId]
      updaterRole == getMemberRole(studioId, updaterId)
      loc == [NoLocal EXCEPT !.role = updaterRole]
  IN /\ Begin
     /\ IF ~IsManager(updaterRole)
          THEN Finish(running, c, loc, "FORBIDDEN")
          ELSE Goto(running, c, "find", loc)
     /\ UNCHANGED store

updateMemberRole_Begin(studioId, userId, role, updaterId) ==
  LET c == [op |-> "updateMemberRole", studioId |-> studioId, userId |-> userId,
            role |-> role, updaterId |-> updaterId]
      updaterRole == getMemberRole(studioId, updaterId)
      loc == [NoLocal EXCEPT !.role = updaterRole]
  IN /\ Begin
     /\ IF updaterRole # "OWNER"
          THEN Finish(running, c, loc, "FORBIDDEN")
          ELSE Goto(running, c, "find", loc)
     /\ UNCHANGED store

\* fault model: the self-change check is missing
updateMemberRole_find_SelfAllowed(h) ==
  /\ Step(h, "updateMemberRole", "find")
  /\ LET member == findUnique(members, h.call.studioId, h.call.userId)
         loc == [h.local EXCEPT !.row = member]
     IN IF member = NoRow THEN Finish(Others(h), h.call, loc, "NOT_FOUND")
        ELSE IF h.call.role = "OWNER" THEN Finish(Others(h), h.call, loc, "BAD_REQUEST")
        ELSE Goto(Others(h), h.call, "update", loc)
  /\ UNCHANGED store

updateMemberRole_find(h) ==
  /\ Step(h, "updateMemberRole", "find")
  /\ LET member == findUnique(members, h.call.studioId, h.call.userId)
         loc == [h.local EXCEPT !.row = member]
     IN IF member = NoRow THEN Finish(Others(h), h.call, loc, "NOT_FOUND")
        ELSE IF h.call.userId = h.call.updaterId
          THEN Finish(Others(h), h.call, loc, "BAD_REQUEST")
        ELSE IF h.call.role = "OWNER" THEN Finish(Others(h), h.call, loc, "BAD_REQUEST")
        ELSE Goto(Others(h), h.call, "update", loc)
  /\ UNCHANGED store

updateMemberRole_update(h) ==
  /\ Step(h, "updateMemberRole", "update")
  /\ LET cur == findUnique(members, h.call.studioId, h.call.userId)
     IN IF cur = NoRow
          THEN /\ Finish(Others(h), h.call, h.local, "P2025")
               /\ UNCHANGED members
          ELSE /\ members' = Update(members, cur, [cur EXCEPT !.role = h.call.role])
               /\ Finish(Others(h), h.call, Written(h.local), "none")
  /\ UNCHANGED <<studios, usedIds, invites, requests, responses, questions, content>>

\* ------------------------------------------------------------ leaveStudio
leaveStudio_Begin(studioId, userId) ==
  LET c == [op |-> "leaveStudio", studioId |-> studioId, userId |-> userId]
      member == findUnique(members, studioId, userId)
      loc == [NoLocal EXCEPT !.row = member, !.role = member.role]
  IN /\ Begin
     /\ IF member = NoRow THEN Finish(running, c, loc, "NOT_FOUND")
        ELSE IF member.role = "OWNER" THEN Finish(running, c, loc, "BAD_REQUEST")
        ELSE Goto(running, c, "delete", loc)
     /\ UNCHANGED store

\* fault model: leaving also deletes the invite through which the member came
leaveStudio_delete_Invite(h) ==
  /\ Step(h, "leaveStudio", "delete")
  /\ LET cur == findUnique(members, h.call.studioId, h.call.userId)
         invite == findUnique(invites, h.call.studioId, h.call.userId)
     IN IF cur = NoRow
          THEN /\ Finish(Others(h), h.call, h.local, "P2025")
               /\ UNCHANGED <<members, invites>>
          ELSE /\ members' = Remove(members, cur)
               /\ invites' = IF invite = NoRow THEN invites ELSE Remove(invites, invite)
               /\ Finish(Others(h), h.call, Written(h.local), "none")
  /\ UNCHANGED <<studios, usedIds, requests, responses, questions, content>>

leaveStudio_delete(h) ==
  /\ Step(h, "leaveStudio", "delete")
  /\ LET cur == findUnique(members, h.call.studioId, h.call.userId)
     IN IF cur = NoRow
          THEN /\ Finish(Others(h), h.call, h.local, "P2025")
               /\ UNCHANGED members
          ELSE /\ members' = Remove(members, cur)
               /\ Finish(Others(h), h.call, Written(h.local), "none")
  /\ UNCHANGED <<studios, usedIds, invites, requests, responses, questions, content>>

\* ------------------------------------------------------------ inviteUser
\* fault model: the invite-as-OWNER check is missing
inviteUser_Begin_OwnerAllowed(studioId, inviterId, userId, role) ==
  LET c == [op |-> "inviteUser", studioId |-> studioId, inviterId |-> inviterId,
            userId |-> userId, role |-> role]
      inviterRole == getMemberRole(studioId, inviterId)
      inviteRole == IF role = NoValue THEN "MEMBER" ELSE role
      loc == [NoLocal EXCEPT !.role = inviterRole]
  IN /\ Begin
     /\ IF ~IsManager(inviterRole) THEN Finish(running, c, loc, "FORBIDDEN")
        ELSE IF inviterRole = "MODERATOR" /\ inviteRole = "MODERATOR"
          THEN Finish(running, c, loc, "FORBIDDEN")
        ELSE Goto(running, c, "member", loc)
     /\ UNCHANGED store

\* fault model: the moderator-invites-moderator check is missing
inviteUser_Begin_AnyRole(studioId, inviterId, userId, role) ==
  LET c == [op |-> "inviteUser", studioId |-> studioId, inviterId |-> inviterId,
            userId |-> userId, role |-> role]
      inviterRole == getMemberRole(studioId, inviterId)
      inviteRole == IF role = NoValue THEN "MEMBER" ELSE role
      loc == [NoLocal EXCEPT !.role = inviterRole]
  IN /\ Begin
     /\ IF ~IsManager(inviterRole) THEN Finish(running, c, loc, "FORBIDDEN")
        ELSE IF inviteRole = "OWNER" THEN Finish(running, c, loc, "BAD_REQUEST")
        ELSE Goto(running, c, "member", loc)
     /\ UNCHANGED store

inviteUser_Begin(studioId, inviterId, userId, role) ==
  LET c == [op |-> "inviteUser", studioId |-> studioId, inviterId |-> inviterId,
            userId |-> userId, role |-> role]
      inviterRole == getMemberRole(studioId, inviterId)
      inviteRole == IF role = NoValue THEN "MEMBER" ELSE role
      loc == [NoLocal EXCEPT !.role = inviterRole]
  IN /\ Begin
     /\ IF ~IsManager(inviterRole) THEN Finish(running, c, loc, "FORBIDDEN")
        ELSE IF inviteRole = "OWNER" THEN Finish(running, c, loc, "BAD_REQUEST")
        ELSE IF inviterRole = "MODERATOR" /\ inviteRole = "MODERATOR"
          THEN Finish(running, c, loc, "FORBIDDEN")
        ELSE Goto(running, c, "member", loc)
     /\ UNCHANGED store

inviteUser_member(h) ==
  /\ Step(h, "inviteUser", "member")
  /\ LET existingMember == findUnique(members, h.call.studioId, h.call.userId)
     IN IF existingMember # NoRow THEN Finish(Others(h), h.call, h.local, "CONFLICT")
        ELSE Goto(Others(h), h.call, "invite", h.local)
  /\ UNCHANGED store

inviteUser_invite(h) ==
  /\ Step(h, "inviteUser", "invite")
  /\ LET existingInvite == findUnique(invites, h.call.studioId, h.call.userId)
     IN IF existingInvite # NoRow /\ existingInvite.status = "PENDING"
          THEN Finish(Others(h), h.call, h.local, "CONFLICT")
        ELSE IF existingInvite # NoRow THEN Goto(Others(h), h.call, "update", h.local)
        ELSE Goto(Others(h), h.call, "create", h.local)
  /\ UNCHANGED store

inviteUser_update(h) ==
  /\ Step(h, "inviteUser", "update")
  /\ LET cur == findUnique(invites, h.call.studioId, h.call.userId)
         inviteRole == IF h.call.role = NoValue THEN "MEMBER" ELSE h.call.role
     IN IF cur = NoRow
          THEN /\ Finish(Others(h), h.call, h.local, "P2025")
               /\ UNCHANGED invites
          ELSE /\ invites' = Update(invites, cur,
                               [cur EXCEPT !.status = "PENDING", !.role = inviteRole])
               /\ Finish(Others(h), h.call, Written(h.local), "none")
  /\ UNCHANGED <<studios, usedIds, members, requests, responses, questions, content>>

\* fault model: the invitation admits the user at once
inviteUser_create_Admits(h) ==
  /\ Step(h, "inviteUser", "create")
  /\ LET inviteRole == IF h.call.role = NoValue THEN "MEMBER" ELSE h.call.role
         row == [studioId |-> h.call.studioId, userId |-> h.call.userId,
                 status |-> "ACCEPTED", role |-> inviteRole]
         member == [studioId |-> h.call.studioId, userId |-> h.call.userId,
                    role |-> inviteRole]
         err == IF CreateError(invites, row) # "none" THEN CreateError(invites, row)
                ELSE CreateError(members, member)
     IN /\ invites' = IF err = "none" THEN Insert(invites, row) ELSE invites
        /\ members' = IF err = "none" THEN Insert(members, member) ELSE members
        /\ Finish(Others(h), h.call, WrittenIf(h.local, err = "none"), err)
  /\ UNCHANGED <<studios, usedIds, requests, responses, questions, content>>

inviteUser_create(h) ==
  /\ Step(h, "inviteUser", "create")
  /\ LET inviteRole == IF h.call.role = NoValue THEN "MEMBER" ELSE h.call.role
         row == [studioId |-> h.call.studioId, userId |-> h.call.userId,
                 status |-> "PENDING", role |-> inviteRole]
         err == CreateError(invites, row)
     IN /\ invites' = IF err = "none" THEN Insert(invites, row) ELSE invites
        /\ Finish(Others(h), h.call, WrittenIf(h.local, err = "none"), err)
  /\ UNCHANGED <<studios, usedIds, members, requests, responses, questions, content>>

\* ------------------------------------------------------------ respondToInvite
\* fault model: the invite is not checked to belong to the caller
respondToInvite_Begin_AnyUser(inviteId, userId, accept) ==
  LET c == [op |-> "respondToInvite", inviteId |-> inviteId, userId |-> userId,
            accept |-> accept]
      invite == findUnique(invites, inviteId.studioId, inviteId.userId)
      loc == [NoLocal EXCEPT !.row = invite]
  IN /\ Begin
     /\ IF invite = NoRow THEN Finish(running, c, loc, "NOT_FOUND")
        ELSE IF invite.status # "PENDING" THEN Finish(running, c, loc, "CONFLICT")
        ELSE IF accept THEN Goto(running, c, "member", loc)
        ELSE Goto(running, c, "reject", loc)
     /\ UNCHANGED store

respondToInvite_Begin(inviteId, userId, accept) ==
  LET c == [op |-> "respondToInvite", inviteId |-> inviteId, userId |-> userId,
            accept |-> accept]
      invite == findUnique(invites, inviteId.studioId, inviteId.userId)
      loc == [NoLocal EXCEPT !.row = invite]
  IN /\ Begin
     /\ IF invite = NoRow THEN Finish(running, c, loc, "NOT_FOUND")
        ELSE IF invite.userId # userId THEN Finish(running, c, loc, "FORBIDDEN")
        ELSE IF invite.status # "PENDING" THEN Finish(running, c, loc, "CONFLICT")
        ELSE IF accept THEN Goto(running, c, "member", loc)
        ELSE Goto(running, c, "reject", loc)
     /\ UNCHANGED store

respondToInvite_member(h) ==
  /\ Step(h, "respondToInvite", "member")
  /\ LET existingMember == findUnique(members, h.local.row.studioId, h.call.userId)
     IN IF existingMember # NoRow
          THEN Goto(Others(h), h.call, "mark", [h.local EXCEPT !.role = existingMember.role])
          ELSE Goto(Others(h), h.call, "transaction", h.local)
  /\ UNCHANGED store

\* fault model: Conflict is thrown without marking the invite
respondToInvite_mark_NoUpdate(h) ==
  /\ Step(h, "respondToInvite", "mark")
  /\ Finish(Others(h), h.call, h.local, "CONFLICT")
  /\ UNCHANGED store

\* already a member: the invite is still marked ACCEPTED, then Conflict is thrown
respondToInvite_mark(h) ==
  /\ Step(h, "respondToInvite", "mark")
  /\ LET cur == findUnique(invites, h.call.inviteId.studioId, h.call.inviteId.userId)
     IN IF cur = NoRow
          THEN /\ Finish(Others(h), h.call, h.local, "P2025")
               /\ UNCHANGED invites
          ELSE /\ invites' = Update(invites, cur, [cur EXCEPT !.status = "ACCEPTED"])
               /\ Finish(Others(h), h.call, Written(h.local), "CONFLICT")
  /\ UNCHANGED <<studios, usedIds, members, requests, responses, questions, content>>

\* fault model: the two statements run one after the other outside a transaction
respondToInvite_transaction_Split(h) ==
  /\ Step(h, "respondToInvite", "transaction")
  /\ LET cur == findUnique(invites, h.call.inviteId.studioId, h.call.inviteId.userId)
         row == [studioId |-> h.local.row.studioId, userId |-> h.call.userId,
                 role |-> h.local.row.role]
         err == IF cur = NoRow THEN "P2025" ELSE CreateError(members, row)
     IN /\ invites' = IF cur = NoRow THEN invites
                      ELSE Update(invites, cur, [cur EXCEPT !.status = "ACCEPTED"])
        /\ members' = IF err = "none" THEN Insert(members, row) ELSE members
        /\ Finish(Others(h), h.call, WrittenIf(h.local, cur # NoRow), err)
  /\ UNCHANGED <<studios, usedIds, requests, responses, questions, content>>

\* prisma.$transaction([update, create]): both statements apply or neither does
respondToInvite_transaction(h) ==
  /\ Step(h, "respondToInvite", "transaction")
  /\ LET cur == findUnique(invites, h.call.inviteId.studioId, h.call.inviteId.userId)
         row == [studioId |-> h.local.row.studioId, userId |-> h.call.userId,
                 role |-> h.local.row.role]
         err == IF cur = NoRow THEN "P2025" ELSE CreateError(members, row)
     IN /\ IF err = "none"
             THEN /\ invites' = Update(invites, cur, [cur EXCEPT !.status = "ACCEPTED"])
                  /\ members' = Insert(members, row)
             ELSE UNCHANGED <<invites, members>>
        /\ Finish(Others(h), h.call, WrittenIf(h.local, err = "none"), err)
  /\ UNCHANGED <<studios, usedIds, requests, responses, questions, content>>

\* fault model: the rejected invite is deleted instead of marked
respondToInvite_reject_Delete(h) ==
  /\ Step(h, "respondToInvite", "reject")
  /\ LET cur == findUnique(invites, h.call.inviteId.studioId, h.call.inviteId.userId)
     IN IF cur = NoRow
          THEN /\ Finish(Others(h), h.call, h.local, "P2025")
               /\ UNCHANGED invites
          ELSE /\ invites' = Remove(invites, cur)
               /\ Finish(Others(h), h.call, Written(h.local), "none")
  /\ UNCHANGED <<studios, usedIds, members, requests, responses, questions, content>>

respondToInvite_reject(h) ==
  /\ Step(h, "respondToInvite", "reject")
  /\ LET cur == findUnique(invites, h.call.inviteId.studioId, h.call.inviteId.userId)
     IN IF cur = NoRow
          THEN /\ Finish(Others(h), h.call, h.local, "P2025")
               /\ UNCHANGED invites
          ELSE /\ invites' = Update(invites, cur, [cur EXCEPT !.status = "REJECTED"])
               /\ Finish(Others(h), h.call, Written(h.local), "none")
  /\ UNCHANGED <<studios, usedIds, members, requests, responses, questions, content>>

\* ------------------------------------------------------------ setQuestions
setQuestions_Begin(studioId, userId, qs) ==
  LET c == [op |-> "setQuestions", studioId |-> studioId, userId |-> userId,
            questions |-> qs]
      role == getMemberRole(studioId, userId)
      loc == [NoLocal EXCEPT !.role = role]
  IN /\ Begin
     /\ IF ~IsManager(role) THEN Finish(running, c, loc, "FORBIDDEN")
        ELSE Goto(running, c, "deleteMany", loc)
     /\ UNCHANGED store

setQuestions_deleteMany(h) ==
  /\ Step(h, "setQuestions", "deleteMany")
  /\ questions' = WithoutStudio(questions, h.call.studioId)
  /\ LET loc == WrittenIf(h.local, questions' # questions)
     IN IF Len(h.call.questions) = 0
          THEN Finish(Others(h), h.call, loc, "none")
          ELSE Goto(Others(h), h.call, "create", [loc EXCEPT !.i = 0])
  /\ UNCHANGED <<studios, usedIds, members, invites, requests, responses, content>>

\* one pass of the loop: questions[i] is created with its order, or i if it has none
setQuestions_create(h) ==
  /\ Step(h, "setQuestions", "create")
  /\ LET i == h.local.i
         q == h.call.questions[i + 1]
         row == [studioId |-> h.call.studioId, question |-> q.question,
                 order |-> IF "order" \in DOMAIN q THEN q.order ELSE i]
     IN IF findStudio(h.call.studioId) = NoStudio
          THEN /\ Finish(Others(h), h.call, h.local, "P2003")
               /\ UNCHANGED questions
          ELSE /\ questions' = Insert(questions, row)
               /\ IF i + 1 < Len(h.call.questions)
                    THEN Goto(Others(h), h.call, "create", Written([h.local EXCEPT !.i = i + 1]))
                    ELSE Finish(Others(h), h.call, Written([h.local EXCEPT !.i = i + 1]), "none")
  /\ UNCHANGED <<studios, usedIds, members, invites, requests, responses, content>>

\* ------------------------------------------------------------ submitResponse
submitResponse_Begin(studioId, userId, answers) ==
  LET c == [op |-> "submitResponse", studioId |-> studioId, userId |-> userId,
            answers |-> answers]
      studio == findStudio(studioId)
      loc == [NoLocal EXCEPT !.joinType = studio.joinType]
  IN /\ Begin
     /\ IF studio = NoStudio THEN Finish(running, c, loc, "NOT_FOUND")
        ELSE IF studio.joinType # "WAITLIST" THEN Finish(running, c, loc, "BAD_REQUEST")
        ELSE Goto(running, c, "member", loc)
     /\ UNCHANGED store

submitResponse_member(h) ==
  /\ Step(h, "submitResponse", "member")
  /\ LET existingMember == findUnique(members, h.call.studioId, h.call.userId)
     IN IF existingMember # NoRow THEN Finish(Others(h), h.call, h.local, "CONFLICT")
        ELSE Goto(Others(h), h.call, "find", h.local)
  /\ UNCHANGED store

\* fault model: an existing response is updated whatever its status
submitResponse_find_Overwrite(h) ==
  /\ Step(h, "submitResponse", "find")
  /\ LET existing == findUnique(responses, h.call.studioId, h.call.userId)
         loc == [h.local EXCEPT !.row = existing]
     IN IF existing # NoRow THEN Goto(Others(h), h.call, "update", loc)
        ELSE Goto(Others(h), h.call, "create", loc)
  /\ UNCHANGED store

submitResponse_find(h) ==
  /\ Step(h, "submitResponse", "find")
  /\ LET existing == findUnique(responses, h.call.studioId, h.call.userId)
         loc == [h.local EXCEPT !.row = existing]
     IN IF existing # NoRow /\ existing.status = "PENDING"
          THEN Finish(Others(h), h.call, loc, "CONFLICT")
        ELSE IF existing # NoRow THEN Goto(Others(h), h.call, "update", loc)
        ELSE Goto(Others(h), h.call, "create", loc)
  /\ UNCHANGED store

\* fault model: the re-application resets the status and keeps the old answers
submitResponse_update_KeepAnswers(h) ==
  /\ Step(h, "submitResponse", "update")
  /\ LET cur == findUnique(responses, h.call.studioId, h.call.userId)
     IN IF cur = NoRow
          THEN /\ Finish(Others(h), h.call, h.local, "P2025")
               /\ UNCHANGED responses
          ELSE /\ responses' = Update(responses, cur, [cur EXCEPT !.status = "PENDING"])
               /\ Finish(Others(h), h.call, Written(h.local), "none")
  /\ UNCHANGED <<studios, usedIds, members, invites, requests, questions, content>>

submitResponse_update(h) ==
  /\ Step(h, "submitResponse", "update")
  /\ LET cur == findUnique(responses, h.call.studioId, h.call.userId)
     IN IF cur = NoRow
          THEN /\ Finish(Others(h), h.call, h.local, "P2025")
               /\ UNCHANGED responses
          ELSE /\ responses' = Update(responses, cur,
                                 [cur EXCEPT !.answers = h.call.answers, !.status = "PENDING"])
               /\ Finish(Others(h), h.call, Written(h.local), "none")
  /\ UNCHANGED <<studios, usedIds, members, invites, requests, questions, content>>

submitResponse_create(h) ==
  /\ Step(h, "submitResponse", "create")
  /\ LET row == [studioId |-> h.call.studioId, userId |-> h.call.userId,
                 status |-> "PENDING", answers |-> h.call.answers]
         err == CreateError(responses, row)
     IN /\ responses' = IF err = "none" THEN Insert(responses, row) ELSE responses
        /\ Finish(Others(h), h.call, WrittenIf(h.local, err = "none"), err)
  /\ UNCHANGED <<studios, usedIds, members, invites, requests, questions, content>>

\* ------------------------------------------------------------ reviewResponse
reviewResponse_Begin(responseId, userId, status) ==
  LET c == [op |-> "reviewResponse", responseId |-> responseId, userId |-> userId,
            status |-> status]
      response == findUnique(responses, responseId.studioId, responseId.userId)
      loc == [NoLocal EXCEPT !.row = response]
  IN /\ Begin
     /\ IF response = NoRow THEN Finish(running, c, loc, "NOT_FOUND")
        ELSE Goto(running, c, "role", loc)
     /\ UNCHANGED store

reviewResponse_role(h) ==
  /\ Step(h, "reviewResponse", "role")
  /\ LET role == getMemberRole(h.local.row.studioId, h.call.userId)
         loc == [h.local EXCEPT !.role = role]
     IN IF ~IsManager(role) THEN Finish(Others(h), h.call, loc, "FORBIDDEN")
        ELSE IF h.local.row.status # "PENDING" THEN Finish(Others(h), h.call, loc, "CONFLICT")
        ELSE Goto(Others(h), h.call, "update", loc)
  /\ UNCHANGED store

reviewResponse_update(h) ==
  /\ Step(h, "reviewResponse", "update")
  /\ LET cur == findUnique(responses, h.call.responseId.studioId, h.call.responseId.userId)
     IN IF cur = NoRow
          THEN /\ Finish(Others(h), h.call, h.local, "P2025")
               /\ UNCHANGED responses
          ELSE /\ responses' = Update(responses, cur, [cur EXCEPT !.status = h.call.status])
               /\ IF h.call.status = "APPROVED"
                    THEN Goto(Others(h), h.call, "member", Written(h.local))
                    ELSE Finish(Others(h), h.call, Written(h.local), "none")
  /\ UNCHANGED <<studios, usedIds, members, invites, requests, questions, content>>

reviewResponse_member(h) ==
  /\ Step(h, "reviewResponse", "member")
  /\ LET row == [studioId |-> h.local.row.studioId, userId |-> h.local.row.userId,
                 role |-> "MEMBER"]
         err == CreateError(members, row)
     IN /\ members' = IF err = "none" THEN Insert(members, row) ELSE members
        /\ Finish(Others(h), h.call, h.local, err)
  /\ UNCHANGED <<studios, usedIds, invites, requests, responses, questions, content>>

\* ------------------------------------------------------------ media
\* ids are generated by the store: an invocation of op begins only while the
\* model still has an id left for it
Taking(op) ==
  BagCardinality([h \in {x \in BagToSet(running) : x.call.op = op} |-> running[h]])
\* the order after the highest order among the rows of studio s, 0 if it has none
NextOrder(table, s) ==
  LET rows == {r \in table : r.studioId = s}
  IN IF rows = {} THEN 0
     ELSE (CHOOSE r \in rows : \A q \in rows : q.order <= r.order).order + 1
findById(table, id) ==
  IF \E r \in table : r.id = id THEN CHOOSE r \in table : r.id = id ELSE NoRow

addMedia_Begin(studioId, userId, item) ==
  LET c == [op |-> "addMedia", studioId |-> studioId, userId |-> userId, item |-> item]
      role == getMemberRole(studioId, userId)
      loc == [NoLocal EXCEPT !.role = role]
  IN /\ Begin
     /\ Cardinality(MediaIds \ usedIds) > Taking("addMedia")
     /\ IF ~IsManager(role) THEN Finish(running, c, loc, "FORBIDDEN")
        ELSE IF "order" \notin DOMAIN item THEN Goto(running, c, "last", loc)
        ELSE Goto(running, c, "create", [loc EXCEPT !.order = item.order])
     /\ UNCHANGED store

addMedia_last(h) ==
  /\ Step(h, "addMedia", "last")
  /\ Goto(Others(h), h.call, "create",
          [h.local EXCEPT !.order = NextOrder(media, h.call.studioId)])
  /\ UNCHANGED store

addMedia_create(h) ==
  /\ Step(h, "addMedia", "create")
  /\ IF findStudio(h.call.studioId) = NoStudio
       THEN /\ Finish(Others(h), h.call, h.local, "P2003")
            /\ UNCHANGED store
       ELSE LET id == CHOOSE x \in MediaIds \ usedIds : TRUE
            IN /\ media' = media \cup
                    {[id |-> id, studioId |-> h.call.studioId, order |-> h.local.order]}
               /\ usedIds' = usedIds \cup {id}
               /\ Finish(Others(h), h.call, Written(h.local), "none")
               /\ UNCHANGED <<studios, members, invites, requests, responses, questions,
                              faqs, ratings, ratingCount>>

removeMedia_Begin(mediaId, userId) ==
  LET c == [op |-> "removeMedia", mediaId |-> mediaId, userId |-> userId]
      item == findById(media, mediaId)
      loc == [NoLocal EXCEPT !.studioId = item.studioId]
  IN /\ Begin
     /\ IF item = NoRow THEN Finish(running, c, loc, "NOT_FOUND")
        ELSE Goto(running, c, "role", loc)
     /\ UNCHANGED store

removeMedia_role(h) ==
  /\ Step(h, "removeMedia", "role")
  /\ LET role == getMemberRole(h.local.studioId, h.call.userId)
         loc == [h.local EXCEPT !.role = role]
     IN IF ~IsManager(role) THEN Finish(Others(h), h.call, loc, "FORBIDDEN")
        ELSE Goto(Others(h), h.call, "delete", loc)
  /\ UNCHANGED store

removeMedia_delete(h) ==
  /\ Step(h, "removeMedia", "delete")
  /\ LET cur == findById(media, h.call.mediaId)
     IN IF cur = NoRow
          THEN /\ Finish(Others(h), h.call, h.local, "P2025")
               /\ UNCHANGED media
          ELSE /\ media' = media \ {cur}
               /\ Finish(Others(h), h.call, Written(h.local), "none")
  /\ UNCHANGED <<studios, usedIds, members, invites, requests, responses, questions,
                 faqs, ratings, ratingCount>>

reorderMedia_Begin(studioId, userId, mediaIds) ==
  LET c == [op |-> "reorderMedia", studioId |-> studioId, userId |-> userId,
            mediaIds |-> mediaIds]
      role == getMemberRole(studioId, userId)
      loc == [NoLocal EXCEPT !.role = role]
  IN /\ Begin
     /\ IF ~IsManager(role) THEN Finish(running, c, loc, "FORBIDDEN")
        ELSE IF Len(mediaIds) = 0 THEN Finish(running, c, loc, "none")
        ELSE Goto(running, c, "update", loc)
     /\ UNCHANGED store

\* one pass of the loop: the row with id mediaIds[i] gets order i
reorderMedia_update(h) ==
  /\ Step(h, "reorderMedia", "update")
  /\ LET i == h.local.i
         cur == findById(media, h.call.mediaIds[i + 1])
         loc == [h.local EXCEPT !.i = i + 1]
     IN IF cur = NoRow
          THEN /\ Finish(Others(h), h.call, h.local, "P2025")
               /\ UNCHANGED media
          ELSE /\ media' = (media \ {cur}) \cup {[cur EXCEPT !.order = i]}
               /\ IF i + 1 < Len(h.call.mediaIds)
                    THEN Goto(Others(h), h.call, "update", Written(loc))
                    ELSE Finish(Others(h), h.call, Written(loc), "none")
  /\ UNCHANGED <<studios, usedIds, members, invites, requests, responses, questions,
                 faqs, ratings, ratingCount>>

\* ------------------------------------------------------------ FAQs
addFAQ_Begin(studioId, userId, question) ==
  LET c == [op |-> "addFAQ", studioId |-> studioId, userId |-> userId,
            question |-> question]
      role == getMemberRole(studioId, userId)
      loc == [NoLocal EXCEPT !.role = role]
  IN /\ Begin
     /\ Cardinality(FaqIds \ usedIds) > Taking("addFAQ")
     /\ IF ~IsManager(role) THEN Finish(running, c, loc, "FORBIDDEN")
        ELSE Goto(running, c, "last", loc)
     /\ UNCHANGED store

addFAQ_last(h) ==
  /\ Step(h, "addFAQ", "last")
  /\ Goto(Others(h), h.call, "create",
          [h.local EXCEPT !.order = NextOrder(faqs, h.call.studioId)])
  /\ UNCHANGED store

addFAQ_create(h) ==
  /\ Step(h, "addFAQ", "create")
  /\ IF findStudio(h.call.studioId) = NoStudio
       THEN /\ Finish(Others(h), h.call, h.local, "P2003")
            /\ UNCHANGED store
       ELSE LET id == CHOOSE x \in FaqIds \ usedIds : TRUE
            IN /\ faqs' = faqs \cup
                    {[id |-> id, studioId |-> h.call.studioId, order |-> h.local.order,
                      question |-> h.call.question]}
               /\ usedIds' = usedIds \cup {id}
               /\ Finish(Others(h), h.call, Written(h.local), "none")
               /\ UNCHANGED <<studios, members, invites, requests, responses, questions,
                              media, ratings, ratingCount>>

updateFAQ_Begin(faqId, userId, question) ==
  LET c == [op |-> "updateFAQ", faqId |-> faqId, userId |-> userId, question |-> question]
      faq == findById(faqs, faqId)
      loc == [NoLocal EXCEPT !.studioId = faq.studioId]
  IN /\ Begin
     /\ IF faq = NoRow THEN Finish(running, c, loc, "NOT_FOUND")
        ELSE Goto(running, c, "role", loc)
     /\ UNCHANGED store

updateFAQ_role(h) ==
  /\ Step(h, "updateFAQ", "role")
  /\ LET role == getMemberRole(h.local.studioId, h.call.userId)
         loc == [h.local EXCEPT !.role = role]
     IN IF ~IsManager(role) THEN Finish(Others(h), h.call, loc, "FORBIDDEN")
        ELSE Goto(Others(h), h.call, "update", loc)
  /\ UNCHANGED store

\* the update writes the fields that the caller sent
updateFAQ_update(h) ==
  /\ Step(h, "updateFAQ", "update")
  /\ LET cur == findById(faqs, h.call.faqId)
         new == IF h.call.question = NoValue THEN cur
                ELSE [cur EXCEPT !.question = h.call.question]
     IN IF cur = NoRow
          THEN /\ Finish(Others(h), h.call, h.local, "P2025")
               /\ UNCHANGED faqs
          ELSE /\ faqs' = (faqs \ {cur}) \cup {new}
               /\ Finish(Others(h), h.call, WrittenIf(h.local, new # cur), "none")
  /\ UNCHANGED <<studios, usedIds, members, invites, requests, responses, questions,
                 media, ratings, ratingCount>>

deleteFAQ_Begin(faqId, userId) ==
  LET c == [op |-> "deleteFAQ", faqId |-> faqId, userId |-> userId]
      faq == findById(faqs, faqId)
      loc == [NoLocal EXCEPT !.studioId = faq.studioId]
  IN /\ Begin
     /\ IF faq = NoRow THEN Finish(running, c, loc, "NOT_FOUND")
        ELSE Goto(running, c, "role", loc)
     /\ UNCHANGED store

deleteFAQ_role(h) ==
  /\ Step(h, "deleteFAQ", "role")
  /\ LET role == getMemberRole(h.local.studioId, h.call.userId)
         loc == [h.local EXCEPT !.role = role]
     IN IF ~IsManager(role) THEN Finish(Others(h), h.call, loc, "FORBIDDEN")
        ELSE Goto(Others(h), h.call, "delete", loc)
  /\ UNCHANGED store

deleteFAQ_delete(h) ==
  /\ Step(h, "deleteFAQ", "delete")
  /\ LET cur == findById(faqs, h.call.faqId)
     IN IF cur = NoRow
          THEN /\ Finish(Others(h), h.call, h.local, "P2025")
               /\ UNCHANGED faqs
          ELSE /\ faqs' = faqs \ {cur}
               /\ Finish(Others(h), h.call, Written(h.local), "none")
  /\ UNCHANGED <<studios, usedIds, members, invites, requests, responses, questions,
                 media, ratings, ratingCount>>

reorderFAQs_Begin(studioId, userId, faqIds) ==
  LET c == [op |-> "reorderFAQs", studioId |-> studioId, userId |-> userId,
            faqIds |-> faqIds]
      role == getMemberRole(studioId, userId)
      loc == [NoLocal EXCEPT !.role = role]
  IN /\ Begin
     /\ IF ~IsManager(role) THEN Finish(running, c, loc, "FORBIDDEN")
        ELSE IF Len(faqIds) = 0 THEN Finish(running, c, loc, "none")
        ELSE Goto(running, c, "update", loc)
     /\ UNCHANGED store

\* one pass of the loop: the row with id faqIds[i] gets order i
reorderFAQs_update(h) ==
  /\ Step(h, "reorderFAQs", "update")
  /\ LET i == h.local.i
         cur == findById(faqs, h.call.faqIds[i + 1])
         loc == [h.local EXCEPT !.i = i + 1]
     IN IF cur = NoRow
          THEN /\ Finish(Others(h), h.call, h.local, "P2025")
               /\ UNCHANGED faqs
          ELSE /\ faqs' = (faqs \ {cur}) \cup {[cur EXCEPT !.order = i]}
               /\ IF i + 1 < Len(h.call.faqIds)
                    THEN Goto(Others(h), h.call, "update", Written(loc))
                    ELSE Finish(Others(h), h.call, Written(loc), "none")
  /\ UNCHANGED <<studios, usedIds, members, invites, requests, responses, questions,
                 media, ratings, ratingCount>>

\* ------------------------------------------------------------ rateStudio
\* a rating is a number; the model holds twice its value, so that 3 stands for
\* 1.5 and the bounds 1 and 5 are 2 and 10
IsInteger(rating) == rating % 2 = 0

rateStudio_Begin(studioId, userId, rating) ==
  LET c == [op |-> "rateStudio", studioId |-> studioId, userId |-> userId,
            rating |-> rating]
  IN /\ Begin
     /\ IF rating < 2 \/ rating > 10 \/ ~IsInteger(rating)
          THEN Finish(running, c, NoLocal, "BAD_REQUEST")
        ELSE IF findStudio(studioId) = NoStudio THEN Finish(running, c, NoLocal, "NOT_FOUND")
        ELSE Goto(running, c, "upsert", NoLocal)
     /\ UNCHANGED store

rateStudio_upsert(h) ==
  /\ Step(h, "rateStudio", "upsert")
  /\ LET cur == findUnique(ratings, h.call.studioId, h.call.userId)
         row == [studioId |-> h.call.studioId, userId |-> h.call.userId,
                 rating |-> h.call.rating]
     IN IF cur = NoRow /\ findStudio(h.call.studioId) = NoStudio
          THEN /\ Finish(Others(h), h.call, h.local, "P2003")
               /\ UNCHANGED ratings
          ELSE /\ ratings' = IF cur = NoRow THEN Insert(ratings, row)
                             ELSE Update(ratings, cur, row)
               /\ Goto(Others(h), h.call, "aggregate", WrittenIf(h.local, ratings' # ratings))
  /\ UNCHANGED <<studios, usedIds, members, invites, requests, responses, questions,
                 media, faqs, ratingCount>>

rateStudio_aggregate(h) ==
  /\ Step(h, "rateStudio", "aggregate")
  /\ LET rows == {r \in BagToSet(ratings) : r.studioId = h.call.studioId}
     IN Goto(Others(h), h.call, "update",
             [h.local EXCEPT !.count = BagCardinality([r \in rows |-> ratings[r]])])
  /\ UNCHANGED store

rateStudio_update(h) ==
  /\ Step(h, "rateStudio", "update")
  /\ IF findStudio(h.call.studioId) = NoStudio
       THEN /\ Finish(Others(h), h.call, h.local, "P2025")
            /\ UNCHANGED ratingCount
       ELSE /\ ratingCount' = [ratingCount EXCEPT ![h.call.studioId] = h.local.count]
            /\ Finish(Others(h), h.call, Written(h.local), "none")
  /\ UNCHANGED <<studios, usedIds, members, invites, requests, responses, questions,
                 media, faqs, ratings>>

\* ------------------------------------------------------------ specification
Handlers == BagToSet(running)
Callers == load.users
Named == load.studios
RowIds == [studioId : Named, userId : load.users]

Next ==
  \/ \E u \in {"u1"}, slug \in Slugs, jt \in {NoValue, "OPEN", "INVITE_ONLY"} :
       createStudio_Begin(u, slug, jt)
  \/ \E h \in Handlers : createStudio_create(h)
  \/ \E h \in Handlers : createStudio_member(h)
  \/ \E s \in Named, u \in Callers, jt \in JoinTypes : updateStudio_Begin(s, u, jt)
  \/ \E h \in Handlers : updateStudio_update(h)
  \/ \E s \in Named, u \in Callers : deleteStudio_Begin(s, u)
  \/ \E h \in Handlers : deleteStudio_delete(h)
  \/ \E s \in Named, u \in Callers, m \in Messages : requestToJoin_Begin(s, u, m)
  \/ \E h \in Handlers : requestToJoin_member(h)
  \/ \E h \in Handlers : requestToJoin_open(h)
  \/ \E h \in Handlers : requestToJoin_request(h)
  \/ \E h \in Handlers : requestToJoin_update(h)
  \/ \E h \in Handlers : requestToJoin_create(h)
  \/ \E s \in Named, id \in RowIds, u \in Callers : approveRequest_Begin(s, id, u)
  \/ \E h \in Handlers : approveRequest_find(h)
  \/ \E h \in Handlers : approveRequest_transaction(h)
  \/ \E s \in Named, id \in RowIds, u \in Callers : rejectRequest_Begin(s, id, u)
  \/ \E h \in Handlers : rejectRequest_find(h)
  \/ \E h \in Handlers : rejectRequest_update(h)
  \/ \E s \in Named, u \in Callers, r \in Callers : removeMember_Begin(s, u, r)
  \/ \E h \in Handlers : removeMember_find(h)
  \/ \E h \in Handlers : removeMember_delete(h)
  \/ \E s \in Named, u \in Callers, role \in Roles, r \in Callers :
       updateMemberRole_Begin(s, u, role, r)
  \/ \E h \in Handlers : updateMemberRole_find(h)
  \/ \E h \in Handlers : updateMemberRole_update(h)
  \/ \E s \in Named, u \in Callers : leaveStudio_Begin(s, u)
  \/ \E h \in Handlers : leaveStudio_delete(h)
  \/ \E s \in Named, i \in Callers, u \in Callers, role \in Roles \cup {NoValue} :
       inviteUser_Begin(s, i, u, role)
  \/ \E h \in Handlers : inviteUser_member(h)
  \/ \E h \in Handlers : inviteUser_invite(h)
  \/ \E h \in Handlers : inviteUser_update(h)
  \/ \E h \in Handlers : inviteUser_create(h)
  \/ \E id \in RowIds, u \in Callers, accept \in BOOLEAN : respondToInvite_Begin(id, u, accept)
  \/ \E h \in Handlers : respondToInvite_member(h)
  \/ \E h \in Handlers : respondToInvite_mark(h)
  \/ \E h \in Handlers : respondToInvite_transaction(h)
  \/ \E h \in Handlers : respondToInvite_reject(h)
  \/ \E s \in Named, u \in Callers, qs \in QuestionLists : setQuestions_Begin(s, u, qs)
  \/ \E h \in Handlers : setQuestions_deleteMany(h)
  \/ \E h \in Handlers : setQuestions_create(h)
  \/ \E s \in Named, u \in Callers, a \in Answers : submitResponse_Begin(s, u, a)
  \/ \E h \in Handlers : submitResponse_member(h)
  \/ \E h \in Handlers : submitResponse_find(h)
  \/ \E h \in Handlers : submitResponse_update(h)
  \/ \E h \in Handlers : submitResponse_create(h)
  \/ \E id \in RowIds, u \in Callers, st \in {"APPROVED", "REJECTED"} :
       reviewResponse_Begin(id, u, st)
  \/ \E h \in Handlers : reviewResponse_role(h)
  \/ \E h \in Handlers : reviewResponse_update(h)
  \/ \E h \in Handlers : reviewResponse_member(h)
  \/ \E s \in Named, u \in Callers, item \in MediaInputs : addMedia_Begin(s, u, item)
  \/ \E h \in Handlers : addMedia_last(h)
  \/ \E h \in Handlers : addMedia_create(h)
  \/ \E x \in MediaIds, u \in Callers : removeMedia_Begin(x, u)
  \/ \E h \in Handlers : removeMedia_role(h)
  \/ \E h \in Handlers : removeMedia_delete(h)
  \/ \E s \in Named, u \in Callers, ids \in IdLists(MediaIds) : reorderMedia_Begin(s, u, ids)
  \/ \E h \in Handlers : reorderMedia_update(h)
  \/ \E s \in Named, u \in Callers, q \in FaqTexts : addFAQ_Begin(s, u, q)
  \/ \E h \in Handlers : addFAQ_last(h)
  \/ \E h \in Handlers : addFAQ_create(h)
  \/ \E x \in FaqIds, u \in Callers, q \in {NoValue, "q2"} : updateFAQ_Begin(x, u, q)
  \/ \E h \in Handlers : updateFAQ_role(h)
  \/ \E h \in Handlers : updateFAQ_update(h)
  \/ \E x \in FaqIds, u \in Callers : deleteFAQ_Begin(x, u)
  \/ \E h \in Handlers : deleteFAQ_role(h)
  \/ \E h \in Handlers : deleteFAQ_delete(h)
  \/ \E s \in Named, u \in Callers, ids \in IdLists(FaqIds) : reorderFAQs_Begin(s, u, ids)
  \/ \E h \in Handlers : reorderFAQs_update(h)
  \/ \E s \in Named, u \in Callers, r \in RatingInputs : rateStudio_Begin(s, u, r)
  \/ \E h \in Handlers : rateStudio_upsert(h)
  \/ \E h \in Handlers : rateStudio_aggregate(h)
  \/ \E h \in Handlers : rateStudio_update(h)

\* ---- initial stores
\* The empty store, and stores the service reaches from it with no handler in
\* flight: studio s1 created by u1 (createStudio; updateStudio sets any joinType
\* afterwards), u2 a MODERATOR (open join, then updateMemberRole by u1), and the
\* candidate holding nothing or one PENDING record: an invite (inviteUser by u1),
\* a join request or a waitlist response (requestToJoin, submitResponse while the
\* studio was WAITLIST).
NothingPending == [invites |-> EmptyBag, requests |-> EmptyBag, responses |-> EmptyBag]
Admissions(u) ==
  { NothingPending,
    [NothingPending EXCEPT !.invites =
       SetToBag({[studioId |-> "s1", userId |-> u, status |-> "PENDING", role |-> "MEMBER"]})],
    [NothingPending EXCEPT !.requests =
       SetToBag({[studioId |-> "s1", userId |-> u, status |-> "PENDING", message |-> "m1"]})],
    [NothingPending EXCEPT !.responses =
       SetToBag({[studioId |-> "s1", userId |-> u, status |-> "PENDING", answers |-> "a1"]})] }

\* no media, FAQs or ratings yet
NoContent ==
  /\ media = {}
  /\ faqs = {}
  /\ ratings = EmptyBag
  /\ ratingCount = [s \in StudioIds |-> 0]

Quiescent ==
  /\ running = EmptyBag
  /\ last = NoResult
  /\ calls = 0
  /\ questions = EmptyBag

EmptyStore ==
  /\ studios = {}
  /\ usedIds = {}
  /\ members = EmptyBag
  /\ invites = EmptyBag
  /\ requests = EmptyBag
  /\ responses = EmptyBag
  /\ NoContent

Seeded(staff, candidate) ==
  /\ \E jt \in JoinTypes : studios = {[id |-> "s1", slug |-> "a", joinType |-> jt]}
  /\ usedIds = {"s1"}
  /\ \E more \in SUBSET staff :
       members = SetToBag({[studioId |-> "s1", userId |-> "u1", role |-> "OWNER"]}
                          \cup {[studioId |-> "s1", userId |-> u, role |-> "MODERATOR"] : u \in more})
  /\ \E p \in Admissions(candidate) :
       /\ invites = p.invites
       /\ requests = p.requests
       /\ responses = p.responses
  /\ NoContent

\* concurrent handlers; the owner u1 and the candidate u2 send requests
Init ==
  /\ load = [users |-> {"u1", "u2"}, inFlight |-> MaxInFlight, studios |-> {"s1"},
             calls |-> MaxCalls]
  /\ Quiescent
  /\ EmptyStore \/ Seeded({}, "u2")

\* handlers one at a time; the owner u1, u2 (possibly a moderator) and the
\* candidate u3 send requests
InitSeq ==
  /\ load = [users |-> Users, inFlight |-> 1, studios |-> {"s1"},
             calls |-> MaxCalls]
  /\ Quiescent
  /\ EmptyStore \/ Seeded({"u2"}, "u3")

\* ---- stores with a history
\* records of the candidate that were decided earlier: an invite the candidate
\* accepted or rejected (respondToInvite), a join request with the message m0 that
\* was approved or rejected (approveRequest, rejectRequest), a waitlist response
\* with the answers a0 that was approved or rejected (reviewResponse)
Decided(u) ==
  { [NothingPending EXCEPT !.invites =
       SetToBag({[studioId |-> "s1", userId |-> u, status |-> st, role |-> "MEMBER"]})]
      : st \in {"ACCEPTED", "REJECTED"} }
  \cup
  { [NothingPending EXCEPT !.requests =
       SetToBag({[studioId |-> "s1", userId |-> u, status |-> st, message |-> "m0"]})]
      : st \in {"APPROVED", "REJECTED"} }
  \cup
  { [NothingPending EXCEPT !.responses =
       SetToBag({[studioId |-> "s1", userId |-> u, status |-> st, answers |-> "a0"]})]
      : st \in {"APPROVED", "REJECTED"} }

\* as Seeded, and the candidate may be a MEMBER (admitted through the record or by
\* an open join) or not (never admitted, or admitted and gone by leaveStudio or
\* removeMember), holding nothing, one PENDING record or one decided record
SeededHistory(staff, candidate) ==
  /\ \E jt \in JoinTypes : studios = {[id |-> "s1", slug |-> "a", joinType |-> jt]}
  /\ usedIds = {"s1"}
  /\ \E more \in SUBSET staff, joined \in SUBSET {candidate} :
       members = SetToBag({[studioId |-> "s1", userId |-> "u1", role |-> "OWNER"]}
                          \cup {[studioId |-> "s1", userId |-> u, role |-> "MODERATOR"] : u \in more}
                          \cup {[studioId |-> "s1", userId |-> u, role |-> "MEMBER"] : u \in joined})
  /\ \E p \in Admissions(candidate) \cup Decided(candidate) :
       /\ invites = p.invites
       /\ requests = p.requests
       /\ responses = p.responses
  /\ NoContent

\* handlers one at a time on a store with a history
InitHistory ==
  /\ load = [users |-> Users, inFlight |-> 1, studios |-> {"s1"},
             calls |-> MaxCalls]
  /\ Quiescent
  /\ EmptyStore \/ SeededHistory({"u2"}, "u3")

\* ---- two studios
\* u1 created the studios s1 (slug a) and s2 (slug b, a WAITLIST studio); the
\* candidate asked to join s2 (requestToJoin) and holds nothing or one PENDING
\* record in s1
SeededTwo(candidate) ==
  /\ \E jt \in JoinTypes :
       studios = {[id |-> "s1", slug |-> "a", joinType |-> jt],
                  [id |-> "s2", slug |-> "b", joinType |-> "WAITLIST"]}
  /\ usedIds = {"s1", "s2"}
  /\ members = SetToBag({[studioId |-> s, userId |-> "u1", role |-> "OWNER"] : s \in {"s1", "s2"}})
  /\ \E p \in Admissions(candidate) :
       /\ invites = p.invites
       /\ requests = Insert(p.requests, [studioId |-> "s2", userId |-> candidate,
                                          status |-> "PENDING", message |-> "m1"])
       /\ responses = p.responses
  /\ NoContent

\* concurrent handlers; the owner u1 and the candidate u2 send requests that name
\* either studio
InitTwo ==
  /\ load = [users |-> {"u1", "u2"}, inFlight |-> MaxInFlight, studios |-> StudioIds,
             calls |-> MaxCalls]
  /\ Quiescent
  /\ EmptyStore \/ SeededTwo("u2")

\* ---- one request more
\* the owner u1 invited the candidate to the WAITLIST studio s1 as a MEMBER
Invited(candidate) ==
  /\ studios = {[id |-> "s1", slug |-> "a", joinType |-> "WAITLIST"]}
  /\ usedIds = {"s1"}
  /\ members = SetToBag({[studioId |-> "s1", userId |-> "u1", role |-> "OWNER"]})
  /\ invites = SetToBag({[studioId |-> "s1", userId |-> candidate, status |-> "PENDING",
                          role |-> "MEMBER"]})
  /\ requests = EmptyBag
  /\ responses = EmptyBag
  /\ NoContent

\* concurrent handlers; the owner u1 and the candidate u2 send one request more
\* than in Init
InitMore ==
  /\ load = [users |-> {"u1", "u2"}, inFlight |-> MaxInFlight, studios |-> {"s1"},
             calls |-> MaxCalls + 1]
  /\ Quiescent
  /\ EmptyStore \/ Invited("u2")

\* ---- two studios with different owners
\* u1 created the studio s1 and the candidate created the WAITLIST studio s2 (slug
\* b), added a media item with order 1 (addMedia) and a FAQ (addFAQ) to it, and
\* holds nothing or one PENDING record in s1
SeededContent(candidate) ==
  /\ \E jt \in JoinTypes :
       studios = {[id |-> "s1", slug |-> "a", joinType |-> jt],
                  [id |-> "s2", slug |-> "b", joinType |-> "WAITLIST"]}
  /\ usedIds = {"s1", "s2", "x1", "f1"}
  /\ members = SetToBag({[studioId |-> "s1", userId |-> "u1", role |-> "OWNER"],
                         [studioId |-> "s2", userId |-> candidate, role |-> "OWNER"]})
  /\ \E p \in Admissions(candidate) :
       /\ invites = p.invites
       /\ requests = p.requests
       /\ responses = p.responses
  /\ media = {[id |-> "x1", studioId |-> "s2", order |-> 1]}
  /\ faqs = {[id |-> "f1", studioId |-> "s2", order |-> 0, question |-> "q1"]}
  /\ ratings = EmptyBag
  /\ ratingCount = [s \in StudioIds |-> 0]

\* handlers one at a time; u1 and u2 each own one of two studios
InitContent ==
  /\ load = [users |-> {"u1", "u2"}, inFlight |-> 1, studios |-> StudioIds,
             calls |-> MaxCalls]
  /\ Quiescent
  /\ EmptyStore \/ SeededContent("u2")

Spec == Init /\ [][Next]_vars
SpecSeq == InitSeq /\ [][Next]_vars
SpecHistory == InitHistory /\ [][Next]_vars
SpecTwo == InitTwo /\ [][Next]_vars
SpecMore == InitMore /\ [][Next]_vars
SpecContent == InitContent /\ [][Next]_vars

\* ================================================================ properties
Pairs == StudioIds \X Users
Pending(table, s, u) == {r \in Rows(table, s, u) : r.status = "PENDING"}
PendingCount(table, s, u) == BagCardinality([r \in Pending(table, s, u) |-> table[r]])
IsMember(s, u) == RowCount(members, s, u) > 0

\* the completed handler is op; Threw(e) is how it ended
Completed(op) == last.call.op = op
Threw(e) == last.thrown = e
Unchanged == ~last.local.wrote

\* ---------------------------------------------------------------- C1
\* C1: for every studio S and user U the members table holds at most one
\* Membership row for (S, U), whatever handlers overlap.
C1_OneMembershipPerPair ==
  \A p \in Pairs : RowCount(members, p[1], p[2]) <= 1

\* two membership creations for the same pair raced and the store refused the second
C1_RaceRefused ==
  /\ Completed("respondToInvite")
  /\ Threw("P2002")
  /\ RowCount(members, "s1", "u2") = 1

\* ---------------------------------------------------------------- C2
\* C2: at the moment an Invite, JoinRequest or WaitlistResponse row for (S, U) is
\* created, no Membership for (S, U) exists, also when handlers overlap.
C2_NoMemberWhenRecordCreated ==
  [][\A p \in Pairs :
       ( \/ RowCount(invites', p[1], p[2]) > RowCount(invites, p[1], p[2])
         \/ RowCount(requests', p[1], p[2]) > RowCount(requests, p[1], p[2])
         \/ RowCount(responses', p[1], p[2]) > RowCount(responses, p[1], p[2]) )
       => RowCount(members, p[1], p[2]) = 0]_vars

\* ---------------------------------------------------------------- C3
\* the number of active admission states of u into s
AdmissionStates(s, u) ==
  (IF IsMember(s, u) THEN 1 ELSE 0)
  + (IF Pending(invites, s, u) # {} THEN 1 ELSE 0)
  + (IF Pending(requests, s, u) # {} THEN 1 ELSE 0)
  + (IF Pending(responses, s, u) # {} THEN 1 ELSE 0)

\* C3 as stated: for every (S, U) at most one of these holds: a Membership exists,
\* a PENDING Invite exists, a PENDING JoinRequest exists, a PENDING
\* WaitlistResponse exists.
C3_OneAdmissionState ==
  \A p \in Pairs : AdmissionStates(p[1], p[2]) <= 1

\* C3 amended: for every (S, U) each pathway holds at most one record (so at most
\* one PENDING Invite, one PENDING JoinRequest and one PENDING WaitlistResponse)
\* and at most one Membership exists; records of different pathways may coexist.
C3_OneRecordPerPathway ==
  \A p \in Pairs :
    /\ RowCount(members, p[1], p[2]) <= 1
    /\ RowCount(invites, p[1], p[2]) <= 1
    /\ RowCount(requests, p[1], p[2]) <= 1
    /\ RowCount(responses, p[1], p[2]) <= 1
    /\ PendingCount(invites, p[1], p[2]) <= 1
    /\ PendingCount(requests, p[1], p[2]) <= 1
    /\ PendingCount(responses, p[1], p[2]) <= 1

\* an invite was created for a user who holds a PENDING join request
C3_TwoPathwaysPending ==
  /\ Completed("inviteUser")
  /\ Threw("none")
  /\ PendingCount(invites, "s1", "u2") = 1
  /\ PendingCount(requests, "s1", "u2") = 1

\* ---------------------------------------------------------------- C4
\* C4: the accepting step of respondToInvite (invite read PENDING, user found not
\* to be a member) is atomic: when it succeeds the invite becomes ACCEPTED and the
\* Membership with the invite's role appears in the same step, so no handler sees
\* one without the other; when it fails neither the invites nor the members
\* change, so a PENDING invite stays PENDING.
C4_AcceptIsAtomic ==
  [][\A h \in BagToSet(running) :
       ( /\ h.call.op = "respondToInvite"
         /\ h.pc = "transaction"
         /\ running' = Others(h)
         /\ last'.call = h.call )
       => LET s == h.call.inviteId.studioId
              u == h.call.userId
          IN \/ /\ last'.thrown = "none"
                /\ findUnique(invites', s, u).status = "ACCEPTED"
                /\ RowCount(members, s, u) = 0
                /\ RowCount(members', s, u) = 1
                /\ findUnique(members', s, u).role = h.local.row.role
             \/ /\ last'.thrown # "none"
                /\ invites' = invites
                /\ members' = members]_vars

\* an accept completed: invite ACCEPTED and membership present together
C4_Accepted ==
  /\ Completed("respondToInvite")
  /\ last.call.accept
  /\ Threw("none")
  /\ findUnique(invites, "s1", "u2").status = "ACCEPTED"
  /\ IsMember("s1", "u2")

\* ---------------------------------------------------------------- C5
\* C5: an actor whose role is MODERATOR gets Forbidden, and nothing is changed, when
\* they invite with role MODERATOR, remove a MODERATOR or the OWNER, or call
\* updateMemberRole.
C5_ModeratorLimits ==
  /\ ( /\ Completed("inviteUser")
       /\ last.local.role = "MODERATOR"
       /\ last.call.role = "MODERATOR" )
     => (Threw("FORBIDDEN") /\ Unchanged)
  /\ ( /\ Completed("removeMember")
       /\ last.local.role = "MODERATOR"
       /\ last.local.row.role \in {"OWNER", "MODERATOR"} )
     => (Threw("FORBIDDEN") /\ Unchanged)
  /\ ( /\ Completed("updateMemberRole")
       /\ last.local.role = "MODERATOR" )
     => (Threw("FORBIDDEN") /\ Unchanged)

\* a moderator tried to invite a user as MODERATOR
C5_ModeratorInvitedModerator ==
  /\ Completed("inviteUser")
  /\ last.local.role = "MODERATOR"
  /\ last.call.role = "MODERATOR"
  /\ Threw("FORBIDDEN")

\* ---------------------------------------------------------------- C6
\* the part of C6 about the OWNER removing themselves or leaving
OwnerStays ==
  /\ ( /\ Completed("removeMember")
       /\ last.local.role = "OWNER"
       /\ last.call.userId = last.call.removerId )
     => (Threw("BAD_REQUEST") /\ Unchanged)
  /\ ( /\ Completed("leaveStudio")
       /\ last.local.role = "OWNER" )
     => (Threw("BAD_REQUEST") /\ Unchanged)

\* C6 as stated: an OWNER calling removeMember on themselves or leaveStudio gets
\* BadRequest, and any user calling updateMemberRole on themselves gets BadRequest.
C6_SelfActionsBadRequest ==
  /\ OwnerStays
  /\ ( /\ Completed("updateMemberRole")
       /\ last.call.userId = last.call.updaterId )
     => Threw("BAD_REQUEST")

\* C6 amended: an OWNER calling removeMember on themselves or leaveStudio gets
\* BadRequest; updateMemberRole on oneself gets BadRequest when the caller is the
\* OWNER and Forbidden when the caller is anyone else; the memberships are
\* unchanged in every one of these cases.
C6_SelfActionsRefused ==
  /\ OwnerStays
  /\ ( /\ Completed("updateMemberRole")
       /\ last.call.userId = last.call.updaterId )
     => /\ Unchanged
        /\ IF last.local.role = "OWNER" THEN Threw("BAD_REQUEST") ELSE Threw("FORBIDDEN")

\* a moderator tried to change their own role
C6_ModeratorChangedSelf ==
  /\ Completed("updateMemberRole")
  /\ last.call.userId = last.call.updaterId
  /\ last.local.role = "MODERATOR"
  /\ Threw("FORBIDDEN")

\* ---------------------------------------------------------------- C7
ManageOps == {"inviteUser", "approveRequest", "rejectRequest", "reviewResponse", "setQuestions"}
\* the target of the completed management call exists (reviewResponse looks its
\* response up before it reads the actor's role)
TargetExists == Completed("reviewResponse") => last.local.row # NoRow

\* C7: a management operation (inviteUser, approveRequest, rejectRequest,
\* reviewResponse, setQuestions) succeeds, or writes anything, only when the role
\* it read for the actor is OWNER or MODERATOR; an actor who is a MEMBER or not a
\* member gets Forbidden for an existing target and the store is unchanged.
C7_ManagersOnly ==
  last.call.op \in ManageOps =>
    /\ (Threw("none") \/ last.local.wrote) => IsManager(last.local.role)
    /\ (last.local.role \in {"MEMBER", "none"} /\ TargetExists)
         => (Threw("FORBIDDEN") /\ Unchanged)

\* a plain member tried to approve a join request
C7_MemberRefused ==
  /\ Completed("approveRequest")
  /\ last.local.role = "MEMBER"
  /\ Threw("FORBIDDEN")

\* ---------------------------------------------------------------- C8
\* C8: updateMemberRole and deleteStudio succeed, or write anything, only when the
\* role read for the caller is OWNER; a MODERATOR, MEMBER or non-member caller gets
\* Forbidden and neither a membership role nor the studio is changed.
C8_OwnerOnly ==
  last.call.op \in {"updateMemberRole", "deleteStudio"} =>
    /\ (Threw("none") \/ last.local.wrote) => last.local.role = "OWNER"
    /\ last.local.role # "OWNER" => (Threw("FORBIDDEN") /\ Unchanged)

\* a moderator tried to delete the studio
C8_ModeratorRefused ==
  /\ Completed("deleteStudio")
  /\ last.local.role = "MODERATOR"
  /\ Threw("FORBIDDEN")
  /\ studios # {}

\* ---------------------------------------------------------------- C9
\* respondToInvite(accept) by a user who is already a member marks the invite
\* ACCEPTED and fails Conflict
AcceptByMember ==
  /\ Completed("respondToInvite")
  /\ last.call.accept
  /\ last.local.role # "none"
  /\ Threw("CONFLICT")

\* C9: an operation that ends in a failure has changed nothing in the store, except
\* respondToInvite(accept) by a user who is already a member; in particular a
\* failed reviewResponse(APPROVED) has not marked the response APPROVED.
C9_FailureChangesNothing ==
  (last.thrown # "none" /\ ~AcceptByMember) => Unchanged

\* ---------------------------------------------------------------- C10
\* the completed invite-accept or join-approval tried to create a Membership and
\* the store refused the row because another handler had created it first
LostMembershipRace ==
  /\ Completed("respondToInvite") \/ Completed("approveRequest")
  /\ Threw("P2002")

\* C10: the loser of a race between two operations that each would create
\* Membership(S, U) is answered with a Conflict error, never with an untyped
\* internal error.
C10_LoserGetsConflict ==
  LostMembershipRace => sendError(last.thrown).code = "CONFLICT"

\* ---------------------------------------------------------------- C11
AdmissionOps ==
  {"requestToJoin", "inviteUser", "submitResponse", "approveRequest", "respondToInvite",
   "reviewResponse"}

\* C11: with handlers running one at a time, a failing requestToJoin, inviteUser,
\* submitResponse, approveRequest, respondToInvite or reviewResponse is answered
\* with one of the typed kinds NotFound, BadRequest, Forbidden, Conflict, never
\* with an untyped store error.
C11_TypedFailures ==
  (last.call.op \in AdmissionOps /\ last.thrown # "none")
    => sendError(last.thrown).code \in ServiceError

\* ---------------------------------------------------------------- C12
StatusOf(table, s, u) == findUnique(table, s, u).status
\* the status of the (s, u) record before and after a step in which it changes and
\* the record is still there
Moved(table, next, s, u) ==
  /\ StatusOf(table, s, u) # StatusOf(next, s, u)
  /\ StatusOf(next, s, u) # "none"
Move(table, next, s, u) == <<StatusOf(table, s, u), StatusOf(next, s, u)>>

InviteMoves ==
  { <<"none", "PENDING">>, <<"PENDING", "ACCEPTED">>, <<"PENDING", "REJECTED">>,
    <<"REJECTED", "PENDING">> }

\* C12: an invite's status only moves none -> PENDING, PENDING -> ACCEPTED,
\* PENDING -> REJECTED and REJECTED -> PENDING; in particular an ACCEPTED invite
\* never changes status again.
C12_InviteMoves ==
  [][\A p \in Pairs :
       Moved(invites, invites', p[1], p[2])
         => Move(invites, invites', p[1], p[2]) \in InviteMoves]_vars

\* ---------------------------------------------------------------- C13
RequestMoves ==
  { <<"none", "PENDING">>, <<"PENDING", "APPROVED">>, <<"PENDING", "REJECTED">>,
    <<"REJECTED", "PENDING">> }

\* C13: a join request's status only moves none -> PENDING, PENDING -> APPROVED,
\* PENDING -> REJECTED and REJECTED -> PENDING, so an APPROVED request never
\* changes again; approveRequest and rejectRequest that find the request not
\* PENDING fail with Conflict and change nothing.
C13_RequestMoves ==
  [][/\ \A p \in Pairs :
          Moved(requests, requests', p[1], p[2])
            => Move(requests, requests', p[1], p[2]) \in RequestMoves
     /\ ( /\ last'.call.op \in {"approveRequest", "rejectRequest"}
          /\ last'.local.row # NoRow
          /\ last'.local.row.status # "PENDING" )
        => (last'.thrown = "CONFLICT" /\ ~last'.local.wrote)]_vars

\* ---------------------------------------------------------------- C14
\* C14: submitResponse resets a response to PENDING only from REJECTED, and a
\* response whose status is APPROVED is never changed by any operation.
C14_ResponseMoves ==
  [][\A p \in Pairs :
       /\ ( /\ Moved(responses, responses', p[1], p[2])
            /\ StatusOf(responses, p[1], p[2]) # "none"
            /\ StatusOf(responses', p[1], p[2]) = "PENDING"
            /\ last'.call.op = "submitResponse" )
          => StatusOf(responses, p[1], p[2]) = "REJECTED"
       /\ StatusOf(responses, p[1], p[2]) = "APPROVED"
            => \/ Rows(responses', p[1], p[2]) = Rows(responses, p[1], p[2])
               \/ Rows(responses', p[1], p[2]) = {}]_vars

\* ---------------------------------------------------------------- C15
\* C15: when submitResponse completes for a user who, with the studio WAITLIST and
\* the user not a member, holds a REJECTED response, it succeeds, and afterwards
\* the single response row of the pair is PENDING and holds exactly the answers
\* just submitted.
C15_ResubmitReplaces ==
  [][( /\ last'.call.op = "submitResponse"
       /\ findStudio(last'.call.studioId).joinType = "WAITLIST"
       /\ ~IsMember(last'.call.studioId, last'.call.userId)
       /\ StatusOf(responses, last'.call.studioId, last'.call.userId) = "REJECTED" )
     => /\ last'.thrown = "none"
        /\ RowCount(responses', last'.call.studioId, last'.call.userId) = 1
        /\ findUnique(responses', last'.call.studioId, last'.call.userId)
             = [studioId |-> last'.call.studioId, userId |-> last'.call.userId,
                status |-> "PENDING", answers |-> last'.call.answers]]_vars

\* a response rejected with the answers a0 was submitted again with the answers a1
C15_Resubmitted ==
  /\ Completed("submitResponse")
  /\ Threw("none")
  /\ last.local.row.status = "REJECTED"
  /\ last.local.row.answers = "a0"
  /\ findUnique(responses, "s1", "u3").answers = "a1"

\* ---------------------------------------------------------------- C16
\* C16: no invite row ever has the role OWNER; inviteUser with role OWNER by an
\* OWNER or MODERATOR fails with BadRequest and writes nothing; an invite made
\* with no role given has the role MEMBER.
C16_NeverInviteOwner ==
  /\ \A r \in BagToSet(invites) : r.role # "OWNER"
  /\ ( /\ Completed("inviteUser")
       /\ IsManager(last.local.role)
       /\ last.call.role = "OWNER" )
     => (Threw("BAD_REQUEST") /\ Unchanged)
  /\ ( /\ Completed("inviteUser")
       /\ last.call.role = NoValue
       /\ Threw("none") )
     => /\ findUnique(invites, last.call.studioId, last.call.userId).role = "MEMBER"
        /\ findUnique(invites, last.call.studioId, last.call.userId).status = "PENDING"

\* a manager tried to invite a user as OWNER
C16_OwnerInviteRefused ==
  /\ Completed("inviteUser")
  /\ IsManager(last.local.role)
  /\ last.call.role = "OWNER"
  /\ Threw("BAD_REQUEST")
  /\ invites = EmptyBag

\* ---------------------------------------------------------------- C17
\* the inviteUser call c, made by an inviter whose role is role, passes the
\* authority and role checks
InviteAllowed(c, role) ==
  /\ IsManager(role)
  /\ c.role # "OWNER"
  /\ ~(role = "MODERATOR" /\ c.role = "MODERATOR")
InviteRole(c) == IF c.role = NoValue THEN "MEMBER" ELSE c.role

\* C17: inviteUser by an authorized inviter fails with Conflict and changes nothing
\* when the target is a member or has a PENDING invite; when a REJECTED invite
\* exists that same row becomes PENDING with the requested role; otherwise a new
\* PENDING invite row is created; a pair never has more than one invite row.
C17_InviteOutcome ==
  [][( /\ last'.call.op = "inviteUser"
       /\ InviteAllowed(last'.call, last'.local.role) )
     => LET s == last'.call.studioId
            u == last'.call.userId
            old == findUnique(invites, s, u)
            pending == [studioId |-> s, userId |-> u, status |-> "PENDING",
                        role |-> InviteRole(last'.call)]
        IN /\ RowCount(invites', s, u) <= 1
           /\ IF IsMember(s, u) \/ old.status = "PENDING"
                THEN /\ last'.thrown = "CONFLICT"
                     /\ invites' = invites
                     /\ members' = members
              ELSE IF old.status = "REJECTED"
                THEN /\ last'.thrown = "none"
                     /\ invites' = Update(invites, old, pending)
              ELSE /\ last'.thrown = "none"
                   /\ old = NoRow
                   /\ invites' = Insert(invites, pending)]_vars

\* ---------------------------------------------------------------- C18
\* C18: respondToInvite fails with NotFound when the invite does not exist, else
\* with Forbidden when the caller is not the invited user, else with Conflict when
\* the invite is not PENDING, each time writing nothing; so a respondToInvite
\* that writes was called by the invited user.
C18_RespondChecks ==
  Completed("respondToInvite") =>
    /\ last.local.row = NoRow => (Threw("NOT_FOUND") /\ Unchanged)
    /\ (last.local.row # NoRow /\ last.local.row.userId # last.call.userId)
         => (Threw("FORBIDDEN") /\ Unchanged)
    /\ ( /\ last.local.row # NoRow
         /\ last.local.row.userId = last.call.userId
         /\ last.local.row.status # "PENDING" )
         => (Threw("CONFLICT") /\ Unchanged)
    /\ last.local.wrote => last.local.row.userId = last.call.userId

\* somebody else answered the invite of the candidate
C18_NotYourInvite ==
  /\ Completed("respondToInvite")
  /\ last.local.row.status = "PENDING"
  /\ last.local.row.userId # last.call.userId
  /\ Threw("FORBIDDEN")

\* ---------------------------------------------------------------- C19
\* C19: when the invited user accepts a PENDING invite while already a member, the
\* invite becomes ACCEPTED, the call fails with Conflict, and the memberships are
\* unchanged (the user's one row keeps its role).
C19_AcceptByMember ==
  [][\A h \in BagToSet(running) :
       ( /\ h.call.op = "respondToInvite"
         /\ h.pc = "mark"
         /\ running' = Others(h)
         /\ last'.call = h.call )
       => LET s == h.call.inviteId.studioId
              u == h.call.userId
          IN /\ last'.thrown = "CONFLICT"
             /\ StatusOf(invites, s, u) = "PENDING"
             /\ StatusOf(invites', s, u) = "ACCEPTED"
             /\ members' = members
             /\ RowCount(members', s, u) = 1
             /\ findUnique(members', s, u).role = h.local.role]_vars

\* a member accepted a PENDING invite
C19_MemberAccepted ==
  /\ Completed("respondToInvite")
  /\ last.call.accept
  /\ last.local.role = "MEMBER"
  /\ Threw("CONFLICT")
  /\ StatusOf(invites, "s1", "u3") = "ACCEPTED"

\* ---------------------------------------------------------------- C20
\* C20: respondToInvite with accept = false on a PENDING invite sets that invite
\* to REJECTED and changes nothing else: no membership, no other invite, no join
\* request and no waitlist response.
C20_RejectOnlyMarks ==
  [][\A h \in BagToSet(running) :
       ( /\ h.call.op = "respondToInvite"
         /\ h.pc = "reject"
         /\ running' = Others(h)
         /\ last'.call = h.call )
       => LET old == findUnique(invites, h.call.inviteId.studioId, h.call.inviteId.userId)
          IN /\ old.status = "PENDING"
             /\ last'.thrown = "none"
             /\ invites' = Update(invites, old, [old EXCEPT !.status = "REJECTED"])
             /\ UNCHANGED <<studios, members, requests, responses, questions, content>>]_vars

\* the candidate rejected the invite
C20_Rejected ==
  /\ Completed("respondToInvite")
  /\ ~last.call.accept
  /\ Threw("none")
  /\ StatusOf(invites, "s1", "u3") = "REJECTED"

\* ---------------------------------------------------------------- C21
\* C21: with handlers running one at a time, when requestToJoin completes on a
\* studio whose joinType is OPEN, then for
\* a caller who is not a member it succeeds with joined = true, the only change
\* to the store is the new Membership of the caller with role MEMBER, and no
\* JoinRequest row is created; for a caller who is a member it fails with
\* Conflict and the store is unchanged.
C21_OpenJoin ==
  [][( /\ last'.call.op = "requestToJoin"
       /\ findStudio(last'.call.studioId).joinType = "OPEN" )
     => LET s == last'.call.studioId
            u == last'.call.userId
        IN IF IsMember(s, u)
             THEN /\ last'.thrown = "CONFLICT"
                  /\ UNCHANGED store
             ELSE /\ last'.thrown = "none"
                  /\ last'.local.joined
                  /\ members' = Insert(members, [studioId |-> s, userId |-> u, role |-> "MEMBER"])
                  /\ UNCHANGED <<studios, usedIds, invites, requests, responses, questions, content>>]_vars

\* the candidate joined an open studio
C21_Joined ==
  /\ Completed("requestToJoin")
  /\ Threw("none")
  /\ last.local.joined
  /\ findUnique(members, "s1", "u3").role = "MEMBER"
  /\ requests = EmptyBag

\* ---------------------------------------------------------------- C22
\* the completed call is a requestToJoin on a studio it read as INVITE_ONLY
JoinInviteOnly ==
  /\ Completed("requestToJoin")
  /\ last.local.joinType = "INVITE_ONLY"

\* C22 as stated: requestToJoin on an INVITE_ONLY studio fails with Forbidden for
\* every calling user and creates neither a Membership nor a JoinRequest.
C22_AlwaysForbidden ==
  JoinInviteOnly => (Threw("FORBIDDEN") /\ Unchanged)

\* C22 amended: requestToJoin on an INVITE_ONLY studio creates neither a
\* Membership nor a JoinRequest and changes nothing; it fails with Forbidden for
\* every caller who is not a member of the studio and with Conflict for a caller
\* who is already a member.
C22_InviteOnlyRefused ==
  JoinInviteOnly =>
    /\ Unchanged
    /\ IF IsMember(last.call.studioId, last.call.userId)
         THEN Threw("CONFLICT")
         ELSE Threw("FORBIDDEN")

\* a user who is not a member asked to join an invite-only studio
C22_StrangerRefused ==
  /\ JoinInviteOnly
  /\ Threw("FORBIDDEN")
  /\ ~IsMember("s1", "u3")
  /\ last.call.userId = "u3"

\* ---------------------------------------------------------------- C23
\* C23: with handlers running one at a time, when requestToJoin completes on a
\* WAITLIST studio: if the caller is a member or holds a PENDING JoinRequest it
\* fails with Conflict and the store is unchanged; if the caller holds a REJECTED
\* JoinRequest that same row becomes PENDING with the new message; otherwise one
\* PENDING JoinRequest is created; in the last two cases nothing else changes
\* (no Membership is created), and a pair never has more than one JoinRequest.
C23_WaitlistJoin ==
  [][( /\ last'.call.op = "requestToJoin"
       /\ findStudio(last'.call.studioId).joinType = "WAITLIST" )
     => LET s == last'.call.studioId
            u == last'.call.userId
            old == findUnique(requests, s, u)
            pending == [studioId |-> s, userId |-> u, status |-> "PENDING",
                        message |-> last'.call.message]
        IN /\ RowCount(requests', s, u) <= 1
           /\ IF IsMember(s, u) \/ old.status = "PENDING"
                THEN /\ last'.thrown = "CONFLICT"
                     /\ UNCHANGED store
              ELSE /\ last'.thrown = "none"
                   /\ ~last'.local.joined
                   /\ requests' = IF old.status = "REJECTED"
                                    THEN Update(requests, old, pending)
                                    ELSE Insert(requests, pending)
                   /\ UNCHANGED <<studios, usedIds, members, invites, responses,
                                  questions, content>>]_vars

\* ---------------------------------------------------------------- C24
\* the checks approveRequest and rejectRequest make on the request they read,
\* once the caller's role was found to be OWNER or MODERATOR: the call that
\* completes in this step fails with NotFound when the request is absent, with
\* BadRequest when it belongs to another studio than the one named, with Conflict
\* when it is not PENDING, and the step changes nothing
RequestChecks(op) ==
  (last'.call.op = op /\ IsManager(last'.local.role)) =>
    LET row == last'.local.row
    IN /\ row = NoRow => (last'.thrown = "NOT_FOUND" /\ UNCHANGED store)
       /\ (row # NoRow /\ row.studioId # last'.call.studioId)
            => (last'.thrown = "BAD_REQUEST" /\ UNCHANGED store)
       /\ (row # NoRow /\ row.studioId = last'.call.studioId /\ row.status # "PENDING")
            => (last'.thrown = "CONFLICT" /\ UNCHANGED store)

\* C24: approveRequest by an OWNER or MODERATOR fails with NotFound, BadRequest
\* (request of another studio) or Conflict (request not PENDING when read) and
\* changes nothing; otherwise its transaction step either marks the request
\* APPROVED and creates the requester's Membership with role MEMBER in the same
\* step, or fails and leaves requests and memberships as they were; no step of
\* any handler turns a request APPROVED without creating the membership in that
\* same step.
C24_ApproveIsAtomic ==
  [][/\ RequestChecks("approveRequest")
     /\ \A h \in BagToSet(running) :
          ( /\ h.call.op = "approveRequest"
            /\ h.pc = "transaction"
            /\ running' = Others(h)
            /\ last'.call = h.call )
          => LET s == h.call.studioId
                 u == h.local.row.userId
             IN /\ h.local.row.status = "PENDING"
                /\ h.local.row.studioId = s
                /\ \/ /\ last'.thrown = "none"
                      /\ StatusOf(requests', s, u) = "APPROVED"
                      /\ members' = Insert(members, [studioId |-> s, userId |-> u,
                                                      role |-> "MEMBER"])
                      /\ RowCount(members, s, u) = 0
                   \/ /\ last'.thrown # "none"
                      /\ requests' = requests
                      /\ members' = members
                /\ UNCHANGED <<studios, usedIds, invites, responses, questions, content>>
     /\ \A p \in Pairs :
          ( /\ StatusOf(requests, p[1], p[2]) # "APPROVED"
            /\ StatusOf(requests', p[1], p[2]) = "APPROVED" )
          => /\ RowCount(members, p[1], p[2]) = 0
             /\ RowCount(members', p[1], p[2]) = 1]_vars

\* an approval failed because the requester had become a member by another
\* pathway, and the request is still PENDING
C24_ApprovalRefused ==
  /\ Completed("approveRequest")
  /\ Threw("P2002")
  /\ StatusOf(requests, last.call.studioId, "u2") = "PENDING"
  /\ IsMember(last.call.studioId, "u2")

\* ---------------------------------------------------------------- C25
\* C25: rejectRequest fails with Forbidden, changing nothing, when the caller is
\* not an OWNER or MODERATOR of the studio named, and then makes the checks of
\* approveRequest (NotFound, BadRequest for a request of another studio, Conflict
\* for a request not PENDING when read); the step in which it succeeds sets the
\* status of that one request to REJECTED and changes nothing else: no
\* membership, no other request, no invite, no waitlist response, no studio.
C25_RejectOnlyMarks ==
  [][/\ (last'.call.op = "rejectRequest" /\ ~IsManager(last'.local.role))
          => (last'.thrown = "FORBIDDEN" /\ UNCHANGED store)
     /\ RequestChecks("rejectRequest")
     /\ (last'.call.op = "rejectRequest" /\ last'.thrown = "none")
          => LET old == findUnique(requests, last'.call.requestId.studioId,
                                   last'.call.requestId.userId)
             IN /\ old # NoRow
                /\ old.studioId = last'.call.studioId
                /\ requests' = Update(requests, old, [old EXCEPT !.status = "REJECTED"])
                /\ UNCHANGED <<studios, usedIds, members, invites, responses,
                               questions, content>>]_vars

\* the owner rejected the candidate's request to join s2
C25_RequestRejected ==
  /\ Completed("rejectRequest")
  /\ Threw("none")
  /\ last.local.row.status = "PENDING"
  /\ StatusOf(requests, "s2", "u2") = "REJECTED"
  /\ ~IsMember("s2", "u2")

\* ---------------------------------------------------------------- C26
\* C26: with handlers running one at a time, submitResponse fails with BadRequest
\* when the studio's joinType is not WAITLIST, and with Conflict when, on a
\* WAITLIST studio, the caller is a member or holds a PENDING response; these
\* calls change nothing, and no failing submitResponse creates or modifies a
\* WaitlistResponse.
C26_SubmitRefused ==
  [][last'.call.op = "submitResponse"
     => LET s == last'.call.studioId
            u == last'.call.userId
            studio == findStudio(s)
        IN /\ (studio # NoStudio /\ studio.joinType # "WAITLIST")
                => (last'.thrown = "BAD_REQUEST" /\ UNCHANGED store)
           /\ ( /\ studio.joinType = "WAITLIST"
                /\ IsMember(s, u) \/ StatusOf(responses, s, u) = "PENDING" )
                => (last'.thrown = "CONFLICT" /\ UNCHANGED store)
           /\ last'.thrown # "none" => responses' = responses]_vars

\* the candidate, not a member, applied again while the first application was
\* PENDING
C26_AlreadyApplied ==
  /\ Completed("submitResponse")
  /\ Threw("CONFLICT")
  /\ last.local.row.status = "PENDING"
  /\ ~IsMember("s1", "u3")
  /\ findUnique(responses, "s1", "u3").answers = "a1"

\* ---------------------------------------------------------------- C27
\* C27: a PENDING WaitlistResponse is decided at most once: a reviewResponse(APPROVED)
\* by an OWNER or MODERATOR that succeeds leaves the response APPROVED and the
\* applicant with one Membership, of role MEMBER; a reviewResponse (APPROVED or
\* REJECTED) on a response it reads as already decided fails, with Conflict when
\* the reviewer is an OWNER or MODERATOR, and changes nothing; and the status of
\* a decided response changes only by going back to PENDING (the applicant
\* submitting again).
C27_DecidedOnce ==
  [][/\ last'.call.op = "reviewResponse"
          => LET row == last'.local.row
             IN /\ (last'.call.status = "APPROVED" /\ last'.thrown = "none")
                     => /\ IsManager(last'.local.role)
                        /\ row.status = "PENDING"
                        /\ StatusOf(responses', row.studioId, row.userId) = "APPROVED"
                        /\ RowCount(members', row.studioId, row.userId) = 1
                        /\ findUnique(members', row.studioId, row.userId).role = "MEMBER"
                /\ row.status \in {"APPROVED", "REJECTED"}
                     => /\ last'.thrown # "none"
                        /\ IsManager(last'.local.role) => last'.thrown = "CONFLICT"
                        /\ UNCHANGED store
     /\ \A p \in Pairs :
          ( /\ StatusOf(responses, p[1], p[2]) \in {"APPROVED", "REJECTED"}
            /\ Moved(responses, responses', p[1], p[2]) )
          => StatusOf(responses', p[1], p[2]) = "PENDING"]_vars

\* ---------------------------------------------------------------- C28
\* the OWNER rows of studio s in a members table, and their number
OwnerRows(table, s) == {r \in BagToSet(table) : r.studioId = s /\ r.role = "OWNER"}
Owners(table, s) == BagCardinality([r \in OwnerRows(table, s) |-> table[r]])

AbsentTarget ==
  /\ last.local.row = NoRow
  /\ \/ Completed("removeMember") /\ IsManager(last.local.role)
     \/ Completed("updateMemberRole") /\ last.local.role = "OWNER"
     \/ Completed("leaveStudio")
\* the completed call tried to create a Membership for a pair that has one, and
\* the store refused the row
DuplicateMember ==
  /\ Threw("P2002")
  /\ \/ last.call.op \in {"approveRequest", "respondToInvite", "reviewResponse"}
     \/ Completed("requestToJoin") /\ last.local.joinType = "OPEN"

\* C29: with handlers running one at a time, removeMember by an OWNER or
\* MODERATOR, updateMemberRole by the OWNER and leaveStudio fail with NotFound and
\* change nothing when the targeted pair has no Membership; and a call that would
\* create a Membership for a pair that already has one is answered with Conflict.
C29_AbsentOrDuplicate ==
  /\ AbsentTarget => (Threw("NOT_FOUND") /\ Unchanged)
  /\ DuplicateMember => sendError(last.thrown).code = "CONFLICT"

\* ---------------------------------------------------------------- C30
\* the WaitlistQuestion rows of studio s
QuestionsOf(s) ==
  LET rows == {r \in BagToSet(questions) : r.studioId = s}
  IN [r \in rows |-> questions[r]]
\* the rows a full replace of the questions of s by the list qs leaves: item i
\* (counted from 0) with its explicit order, or else its position
Replaced(s, qs) ==
  LET row(i) == [studioId |-> s, question |-> qs[i].question,
                 order |-> IF "order" \in DOMAIN qs[i] THEN qs[i].order ELSE i - 1]
      rows == {row(i) : i \in 1..Len(qs)}
  IN [r \in rows |-> Cardinality({i \in 1..Len(qs) : row(i) = r})]
SettingQuestions(s) ==
  \E h \in BagToSet(running) : h.call.op = "setQuestions" /\ h.call.studioId = s

\* C30: whenever no setQuestions call for studio s is in progress, the
\* WaitlistQuestion rows of s are exactly the rows of one supplied list (or none,
\* when no list was set or the studio is gone), never a mix of two calls' lists
\* and never a part of a list, also when setQuestions calls overlap.
C30_FullReplace ==
  \A s \in StudioIds :
    ~SettingQuestions(s) =>
      \/ QuestionsOf(s) = EmptyBag
      \/ \E qs \in QuestionLists : QuestionsOf(s) = Replaced(s, qs)


\* ---------------------------------------------------------------- C31
\* C31: the step in which respondToInvite(accept) commits creates the Membership
\* with the role that the invite row holds when that step is taken, also when a
\* reject and a re-invite with another role ran after the accept read the invite.
C31_RoleAtCommit ==
  [][\A h \in BagToSet(running) :
       ( /\ h.call.op = "respondToInvite"
         /\ h.pc = "transaction"
         /\ running' = Others(h)
         /\ last'.call = h.call
         /\ last'.thrown = "none" )
       => LET s == h.call.inviteId.studioId
              u == h.call.userId
          IN findUnique(members', s, u).role = findUnique(invites, s, u).role]_vars

\* ---------------------------------------------------------------- C32
\* C32: a step of approveRequest or reviewResponse that creates a Membership is
\* taken only while the studio's joinType is WAITLIST, and a step of requestToJoin
\* that creates one only while it is OPEN, whatever updateStudio did since the
\* user asked to join.
C32_JoinTypeAtAdmission ==
  [][\A h \in BagToSet(running) :
       /\ ( /\ h.call.op = "approveRequest"
            /\ h.pc = "transaction"
            /\ running' = Others(h)
            /\ members' # members )
          => findStudio(h.call.studioId).joinType = "WAITLIST"
       /\ ( /\ h.call.op = "reviewResponse"
            /\ h.pc = "member"
            /\ running' = Others(h)
            /\ members' # members )
          => findStudio(h.local.row.studioId).joinType = "WAITLIST"
       /\ ( /\ h.call.op = "requestToJoin"
            /\ h.pc = "open"
            /\ running' = Others(h)
            /\ members' # members )
          => findStudio(h.call.studioId).joinType = "OPEN"]_vars

\* ---------------------------------------------------------------- C33
ItemsOf(table, s) == {r \in table : r.studioId = s}
\* handler h takes the step: it completes or moves to its next await
Acts(h) ==
  /\ h \in BagToSet(running)
  /\ \/ running' = Others(h)
     \/ \E g \in BagToSet(running') : g.call = h.call /\ running' = Others(h) (+) SetToBag({g})

\* C33: a step that adds, changes or removes a media item or FAQ of studio S is
\* taken by a handler whose caller is OWNER or MODERATOR of S; a reorder called
\* for another studio never changes an item of S.
C33_ManagersOfTheStudio ==
  [][\A s \in StudioIds :
       (ItemsOf(media', s) # ItemsOf(media, s) \/ ItemsOf(faqs', s) # ItemsOf(faqs, s))
       => \E h \in BagToSet(running) :
            Acts(h) /\ IsManager(getMemberRole(s, h.call.userId))]_vars

\* ---------------------------------------------------------------- C34
Slugged(table, slug) == {st \in table : st.slug = slug}
Identity(table) == {<<st.id, st.slug>> : st \in table}

Elevated == {"OWNER", "MODERATOR"}
\* the rows of next that table does not hold: rows created or changed by the step
Appear(table, next) == BagToSet(next) \ BagToSet(table)

Added(table, next) ==
  {p \in Pairs : RowCount(next, p[1], p[2]) > RowCount(table, p[1], p[2])}

Lost(h) ==
  \/ /\ h.call.op = "approveRequest"
     /\ h.pc = "transaction"
     /\ StatusOf(requests, h.call.requestId.studioId, h.call.requestId.userId) = "REJECTED"
  \/ /\ h.call.op = "rejectRequest"
     /\ h.pc = "update"
     /\ StatusOf(requests, h.call.requestId.studioId, h.call.requestId.userId) = "APPROVED"
  \/ /\ h.call.op = "respondToInvite"
     /\ h.pc = "transaction"
     /\ StatusOf(invites, h.call.inviteId.studioId, h.call.inviteId.userId) = "REJECTED"
  \/ /\ h.call.op = "respondToInvite"
     /\ h.pc = "reject"
     /\ StatusOf(invites, h.call.inviteId.studioId, h.call.inviteId.userId) = "ACCEPTED"

\* C37: when an approving and a rejecting decision on one PENDING record
\* overlap, the handler that comes second to its write fails with Conflict and
\* changes nothing, so the record is never REJECTED while the Membership made
\* by its approval or acceptance exists.
C37_OneDecision ==
  [][\A h \in BagToSet(running) :
       (Acts(h) /\ Lost(h))
       => /\ last'.call = h.call
          /\ last'.thrown = "CONFLICT"
          /\ UNCHANGED store]_vars

\* ---------------------------------------------------------------- C38
\* the Membership that the completed removeMember or leaveStudio call targeted
Target(c) == findUnique(members, c.studioId, c.userId)

\* C38: the step in which removeMember or leaveStudio completes successfully
\* removes the one Membership row of the targeted (studio, user) and changes no
\* other row: the other memberships, the invites, join requests and waitlist
\* responses (also the ACCEPTED or APPROVED record through which the member was
\* admitted) and every other table stay as they were.
C38_OnlyTheMembership ==
  [][( /\ last'.call.op \in {"removeMember", "leaveStudio"}
       /\ last'.thrown = "none" )
     => /\ Target(last'.call) # NoRow
        /\ members' = Remove(members, Target(last'.call))
        /\ BagCardinality(members') = BagCardinality(members) - 1
        /\ UNCHANGED <<studios, usedIds, invites, requests, responses, questions, content>>]_vars

\* the member who had accepted an invite left; the ACCEPTED invite is still there
C38_LeftInviteKept ==
  /\ Completed("leaveStudio")
  /\ Threw("none")
  /\ last.call.userId = "u3"
  /\ ~IsMember("s1", "u3")
  /\ StatusOf(invites, "s1", "u3") = "ACCEPTED"

\* ---------------------------------------------------------------- C39
RatingRows(s) ==
  LET rows == {r \in BagToSet(ratings) : r.studioId = s}
  IN BagCardinality([r \in rows |-> ratings[r]])
BeingRated(s) == \E h \in BagToSet(running) : h.call.op = "rateStudio" /\ h.call.studioId = s

\* C39: a rateStudio call whose rating is not one of the integers 1..5 fails
\* with BadRequest and stores nothing; each (studio, user) has at most one
\* rating row; and whenever no rateStudio call for a studio is in progress, the
\* studio's ratingCount is the number of its rating rows, also after rateStudio
\* calls of different users overlapped.
C39_RatingCount ==
  /\ (Completed("rateStudio") /\ last.call.rating \notin {2 * n : n \in 1..5})
       => (Threw("BAD_REQUEST") /\ Unchanged)
  /\ \A p \in Pairs : RowCount(ratings, p[1], p[2]) <= 1
  /\ \A st \in studios : ~BeingRated(st.id) => ratingCount[st.id] = RatingRows(st.id)
====
